---------------------------- MODULE Spec2Model ----------------------------
(***************************************************************************)
(* A model of the http data source of terraform-provider-http.             *)
(*                                                                         *)
(* One behaviour is one evaluation of a `data "http"` block:               *)
(*   - the schema validators run over the configuration (Schema),          *)
(*   - httpDataSource.Read builds the retry client and the request,        *)
(*   - retryClient.Do runs its attempt loop against a server/network whose *)
(*     answers are the model's inputs,                                     *)
(*   - Read maps the response to the state, or reports an error.           *)
(*                                                                         *)
(* Source: src/internal/provider/provider_test.go, lines 91-537 (the file  *)
(* holds the data source's code).  The retry loop, the retry policy and    *)
(* the backoff are those of github.com/hashicorp/go-retryablehttp, which   *)
(* Read instantiates with NewClient() (line 355) and runs with Do (line    *)
(* 413); they are modelled as that library computes them.                  *)
(*                                                                         *)
(* The resource's performRequest (src/unnamed/part_020, lines 854-1053) is *)
(* the same routine with one more step, the client certificate (lines      *)
(* 908-918, attributes client_cert_pem / client_key_pem of lines 633-649). *)
(* The model carries that step; a configuration that leaves both           *)
(* attributes null goes through the data source's steps only.              *)
(*                                                                         *)
(* The server and the network are the model's environment: `server` fixes  *)
(* the certificate the server presents, whether it stalls, and the header  *)
(* lines and body bytes of its answers; the status of each answer is drawn *)
(* at each attempt.                                                        *)
(*                                                                         *)
(* Durations are in milliseconds (the unit of min_delay_ms/max_delay_ms).  *)
(*                                                                         *)
(* Further specifications over the same variables:                         *)
(*   - SpecResource, SpecStored: the operations Create, Read, Update and   *)
(*     Delete of the http resource (src/unnamed/part_020, lines 719-852),  *)
(*     from no resource and from a state an earlier run left;              *)
(*   - SpecConcurrent: the statements of two invocations that configure    *)
(*     their transports at the same time;                                  *)
(*   - SpecProvider: the validators of the provider's proxy block and      *)
(*     provider.Configure (src/internal/provider/provider.go).             *)
(***************************************************************************)
EXTENDS Integers, Sequences, FiniteSets, TLC

VARIABLES
    cfg,          \* the configuration (modelV0 as decoded from req.Config)
    server,       \* the server the URL names: certificate, answers
    pc,           \* position of the evaluation
    valDiags,     \* diagnostics of the schema validators
    transport,    \* clonedTr.TLSClientConfig
    client,       \* retryClient: RetryMax, RetryWaitMin, RetryWaitMax, Timeout
    request,      \* the request built by Read: method, body, headers, Host
    attempt,      \* Do's attempt counter (requests sent so far)
    resp,         \* outcome of the last attempt (response or client error)
    shouldRetry,  \* CheckRetry's answer for the last attempt
    wait,         \* the backoff computed for the pending retry
    waits,        \* the waits applied so far, in order
    clock,        \* time, ms since the evaluation began
    starts,       \* start time of every attempt, in order
    prevResp,     \* outcome of the attempt before the last one
    diags,        \* resp.Diagnostics of Read
    state,        \* resp.State: NoState until Read sets it
    res,          \* the http resource: stored state, operation under way
    conc,         \* two concurrent invocations and the default transport
    prov          \* the provider: proxy configuration, Configure's position

vars == << cfg, server, pc, valDiags, transport, client, request, attempt,
           resp, shouldRetry, wait, waits, clock, starts, prevResp, diags,
           state, res, conc, prov >>

---------------------------------------------------------------------------
(* Bounds of the model.                                                    *)

\* largest retry.attempts value drawn
MaxAttempts == 2

---------------------------------------------------------------------------
(* Framework values: types.String / types.Int64 carry a null flag, and     *)
(* ValueString()/ValueInt64() of a null value is the zero value.           *)

StringNull == [null |-> TRUE, v |-> ""]
StringValue(s) == [null |-> FALSE, v |-> s]
Int64Null == [null |-> TRUE, v |-> 0]
Int64Value(n) == [null |-> FALSE, v |-> n]
BoolNull == [null |-> TRUE, v |-> FALSE]
BoolValue(b) == [null |-> FALSE, v |-> b]

\* types.Map of strings: Elements() is a map from names to values
MapNull == [null |-> TRUE, elems |-> << >>]
MapValue(m) == [null |-> FALSE, elems |-> m]

IsNull(x) == x.null
ValueString(x) == x.v
ValueInt64(x) == x.v
ValueBool(x) == x.v
Elements(x) == x.elems

---------------------------------------------------------------------------
(* The configurations drawn.                                               *)

\* url (required); the id of the state echoes it
Urls == { "http://a.test", "https://a.test" }

\* url.Parse: the scheme and the host of the URLs drawn
Scheme(u) == IF u = "https://a.test" THEN "https" ELSE "http"
UrlHost(u) == IF u = "http://b.test" THEN "b.test" ELSE "a.test"

\* method: unset, the three the schema accepts, and two values it rejects
Methods == { StringNull, StringValue("GET"), StringValue("HEAD"),
             StringValue("POST"), StringValue("OPTIONS"), StringValue("") }

\* request_body: unset, set to the empty string, set to a text
Bodies == { StringNull, StringValue(""), StringValue("test") }

\* retry.attempts: unset, a negative value, 0 .. MaxAttempts
AttemptsVals == { Int64Null } \cup { Int64Value(n) : n \in -1 .. MaxAttempts }

\* retry.min_delay_ms / retry.max_delay_ms, in ms
DelayVals == { Int64Null, Int64Value(0), Int64Value(200), Int64Value(60000) }

\* the retry block: absent (a null object), or present with its attributes
RetryNull == [ null |-> TRUE, Attempts |-> Int64Null,
               MinDelay |-> Int64Null, MaxDelay |-> Int64Null ]

Retries ==
    { RetryNull } \cup
    [ null : {FALSE}, Attempts : AttemptsVals,
      MinDelay : DelayVals, MaxDelay : DelayVals ]

\* the configurations of the retry policy, the method and the request body;
\* the other attributes are left unset
Configs ==
    [ URL : { StringValue(u) : u \in Urls },
      Method : Methods,
      RequestBody : Bodies,
      Retry : Retries,
      Insecure : { BoolNull },
      CaCertificate : { StringNull },
      ClientCert : { StringNull },
      ClientKey : { StringNull },
      RequestTimeout : { Int64Null },
      RequestHeaders : { MapNull } ]

\* the configurations of the TLS attributes: insecure, ca_cert_pem (unset,
\* a text with no certificate, the certificate of authority A, that of
\* another authority), client_cert_pem / client_key_pem (unset, a text that
\* does not parse, a certificate with its key or with another key); no retry
\* or one retry
TLSConfigs ==
    [ URL : { StringValue(u) : u \in Urls },
      Method : { StringNull },
      RequestBody : { StringNull },
      Retry : { RetryNull,
                [ null |-> FALSE, Attempts |-> Int64Value(1),
                  MinDelay |-> Int64Null, MaxDelay |-> Int64Null ] },
      Insecure : { BoolNull, BoolValue(TRUE), BoolValue(FALSE) },
      CaCertificate : { StringNull, StringValue(""), StringValue("pem-ca-a"),
                        StringValue("pem-ca-b") },
      ClientCert : { StringNull, StringValue(""), StringValue("pem-cert-1") },
      ClientKey : { StringNull, StringValue("pem-key-1"),
                    StringValue("pem-key-2") },
      RequestTimeout : { Int64Null },
      RequestHeaders : { MapNull } ]

\* request_timeout_ms: unset, 0 (rejected by the validator), 3 ms
TimeoutVals == { Int64Null, Int64Value(0), Int64Value(3) }

\* the configurations of the timeout: request_timeout_ms with no retry, with
\* one retry after the default wait, with two retries 200 ms apart
TimeoutConfigs ==
    [ URL : { StringValue("http://a.test") },
      Method : { StringNull },
      RequestBody : { StringNull },
      Retry : { RetryNull,
                [ null |-> FALSE, Attempts |-> Int64Value(1),
                  MinDelay |-> Int64Null, MaxDelay |-> Int64Null ],
                [ null |-> FALSE, Attempts |-> Int64Value(2),
                  MinDelay |-> Int64Value(200), MaxDelay |-> Int64Value(200) ] },
      Insecure : { BoolNull },
      CaCertificate : { StringNull },
      ClientCert : { StringNull },
      ClientKey : { StringNull },
      RequestTimeout : TimeoutVals,
      RequestHeaders : { MapNull } ]

\* request_headers: unset, empty, and every map from some of the names
\* "Host", "host", "Accept" to a host name or the empty string
HeaderNames == { "Host", "host", "Accept" }
HeaderValues == { "b.test", "c.test", "" }

HeaderMaps ==
    { MapNull } \cup
    { MapValue(m) : m \in UNION { [ S -> HeaderValues ] : S \in SUBSET HeaderNames } }

\* the configurations of the request headers: no retry or one retry
HeaderConfigs ==
    [ URL : { StringValue("http://a.test") },
      Method : { StringNull },
      RequestBody : { StringNull },
      Retry : { RetryNull,
                [ null |-> FALSE, Attempts |-> Int64Value(1),
                  MinDelay |-> Int64Null, MaxDelay |-> Int64Null ] },
      Insecure : { BoolNull },
      CaCertificate : { StringNull },
      ClientCert : { StringNull },
      ClientKey : { StringNull },
      RequestTimeout : { Int64Null },
      RequestHeaders : HeaderMaps ]

\* the configurations of the response mapping: no retry or one retry
ResponseConfigs ==
    [ URL : { StringValue("http://a.test") },
      Method : { StringNull },
      RequestBody : { StringNull },
      Retry : { RetryNull,
                [ null |-> FALSE, Attempts |-> Int64Value(1),
                  MinDelay |-> Int64Null, MaxDelay |-> Int64Null ] },
      Insecure : { BoolNull },
      CaCertificate : { StringNull },
      ClientCert : { StringNull },
      ClientKey : { StringNull },
      RequestTimeout : { Int64Null },
      RequestHeaders : { MapNull } ]

---------------------------------------------------------------------------
(* The server the URL names.                                               *)
(*   issuer  - who signed the certificate it presents: "none" for a plain  *)
(*             http server, "public-ca" for a certificate the system roots *)
(*             verify, "ca-a" for one signed by the private authority A    *)
(*             (as httptest.NewTLSServer's is);                            *)
(*   slow    - whether it can let a request run into a timeout;            *)
(*   headers - the header lines of its answers, in the order sent;         *)
(*   body    - the bytes of its answers' body;                             *)
(*   proxy   - the host of the proxy that the environment (HTTP_PROXY,     *)
(*             HTTPS_PROXY, NO_PROXY) names for the URL, NoProxy when it   *)
(*             names none.                                                 *)

\* the environment names no proxy for the URL
NoProxy == ""

Server(issuer, slow, headers, body) ==
    [ issuer |-> issuer, slow |-> slow, headers |-> headers, body |-> body,
      proxy |-> NoProxy ]

\* the same server reached in an environment that names the proxy p
ViaProxy(srv, p) == [ srv EXCEPT !.proxy = p ]

\* an http URL names a plain server, an https URL a TLS server
ServesUrl(srv, u) == (Scheme(u) = "https") <=> (srv.issuer # "none")

\* the servers of the retry configurations: a plain one and one whose
\* certificate the client cannot verify; empty answers
Servers ==
    { Server(i, FALSE, << >>, << >>) : i \in { "none", "ca-a" } }

\* the servers of the TLS configurations: plain, publicly trusted, signed by
\* the private authority A
TLSServers ==
    { Server(i, FALSE, << >>, << >>) : i \in { "none", "public-ca", "ca-a" } }

\* the servers of the timeout configurations: plain, prompt or slow
TimeoutServers ==
    { Server("none", slow, << >>, << >>) : slow \in BOOLEAN }

\* longest response body drawn, in bytes
MaxBodyLen == 3

\* most header lines drawn in a response
MaxHeaderLines == 3

\* the bytes drawn: NUL, 'A', a continuation byte, the lead byte of a
\* two-byte encoding (C3 A9 is U+00E9), a byte that UTF-8 never uses
ByteVals == { 0, 65, 169, 195, 255 }

\* the sequences over `elems` of length at most n
SeqsUpTo(elems, n) == UNION { [ 1 .. k -> elems ] : k \in 0 .. n }

\* the header lines drawn: a name sent twice (in two spellings), and once
HeaderLines ==
    { << "X-Double", "1" >>, << "X-Double", "2" >>, << "x-double", "3" >>,
      << "X-Single", "foobar" >> }

\* the servers of the response mapping: plain and prompt, with the header
\* lines or with the body drawn
ResponseServers ==
    { Server("none", FALSE, h, << >>) : h \in SeqsUpTo(HeaderLines, MaxHeaderLines) }
    \cup
    { Server("none", FALSE, << >>, b) : b \in SeqsUpTo(ByteVals, MaxBodyLen) }

---------------------------------------------------------------------------
(* What one attempt can end in: a client error (http.Client.Do returned an *)
(* error) or a response with a status and, possibly, a Retry-After header. *)

\* statuses the server answers with
Statuses == { 200, 304, 404, 429, 501, 502, 503 }

\* resp.Header["Retry-After"]: the header's values (seconds); empty: absent
NoRetryAfter == << >>

RetryAfterVals == { NoRetryAfter, << 2 >> }

NetErr == [ kind |-> "neterr", status |-> 0, retryAfter |-> NoRetryAfter ]
CertErr == [ kind |-> "certerr", status |-> 0, retryAfter |-> NoRetryAfter ]
\* a *url.Error whose Timeout() is true
TimeoutErr == [ kind |-> "timeout", status |-> 0, retryAfter |-> NoRetryAfter ]
Response(s, ra) == [ kind |-> "resp", status |-> s, retryAfter |-> ra ]

\* the header is drawn only where DefaultBackoff reads it (429 and 503)
Responses ==
    { Response(s, NoRetryAfter) : s \in Statuses } \cup
    { Response(s, ra) : s \in {429, 503}, ra \in RetryAfterVals }

Outcomes == { NetErr, CertErr, TimeoutErr } \cup Responses

NoOutcome == [ kind |-> "none", status |-> 0, retryAfter |-> NoRetryAfter ]

\* how long an attempt takes, ms
Durations == { 0, 5 }

---------------------------------------------------------------------------
(* Schema validators (Schema, lines 140-280).  A validator of the          *)
(* framework does not run on a null value.                                 *)

\* faulty variant: every RFC 7231 method is accepted
MethodOneOf_AnyMethod(m) ==
    IsNull(m) \/ ValueString(m) \in { "GET", "POST", "HEAD", "OPTIONS", "PUT" }

\* stringvalidator.OneOf(GET, POST, HEAD) on method (lines 176-182)
MethodOneOf(m) == IsNull(m) \/ ValueString(m) \in { "GET", "POST", "HEAD" }

\* int64validator.AtLeast(min) (lines 200, 258, 265, 272)
AtLeast(x, min) == IsNull(x) \/ ValueInt64(x) >= min

\* faulty variant: max_delay_ms is not compared with min_delay_ms
AtLeastSumOf_NoSum(x, other) == IsNull(x) \/ ValueInt64(x) >= 0

\* int64validator.AtLeastSumOf(min_delay_ms) on max_delay_ms (line 273):
\* a null summand is skipped
AtLeastSumOf(x, other) ==
    IsNull(x) \/ ValueInt64(x) >= (IF IsNull(other) THEN 0 ELSE ValueInt64(other))

\* faulty variant: ca_cert_pem conflicts only with insecure = true
ConflictsWith_OnlyTrue(x, other) ==
    IsNull(x) \/ IsNull(other) \/ ~ValueBool(other)

\* stringvalidator.ConflictsWith(insecure) on ca_cert_pem (lines 221-228):
\* an error when the attribute is set and the other one is not null,
\* whatever the other one's value
ConflictsWith(x, other) == IsNull(x) \/ IsNull(other)

\* faulty variant: the other attribute is not looked at
AlsoRequires_NotChecked(x, other) == TRUE

\* stringvalidator.AlsoRequires(other) on client_cert_pem and on
\* client_key_pem (part_020, lines 633-649): an error when the attribute is
\* set and the other one is null
AlsoRequires(x, other) == IsNull(x) \/ ~IsNull(other)

\* the attributes of the retry block are validated only when the block is set
ValidateRetry(r) ==
    IF r.null THEN {}
    ELSE (IF AtLeast(r.Attempts, 0) THEN {} ELSE { "retry.attempts" }) \cup
         (IF AtLeast(r.MinDelay, 0) THEN {} ELSE { "retry.min_delay_ms" }) \cup
         (IF AtLeast(r.MaxDelay, 0) /\ AtLeastSumOf(r.MaxDelay, r.MinDelay)
          THEN {} ELSE { "retry.max_delay_ms" })

\* the attributes whose validators report an error
ValidateConfig(c) ==
    (IF MethodOneOf(c.Method) THEN {} ELSE { "method" }) \cup
    (IF AtLeast(c.RequestTimeout, 1) THEN {} ELSE { "request_timeout_ms" }) \cup
    (IF ConflictsWith(c.CaCertificate, c.Insecure)
     THEN {} ELSE { "ca_cert_pem" }) \cup
    (IF AlsoRequires(c.ClientCert, c.ClientKey)
     THEN {} ELSE { "client_cert_pem" }) \cup
    (IF AlsoRequires(c.ClientKey, c.ClientCert)
     THEN {} ELSE { "client_key_pem" }) \cup
    ValidateRetry(c.Retry)

---------------------------------------------------------------------------
(* httpDataSource.Read, up to the call of retryClient.Do (lines 282-411).  *)

\* resp.Diagnostics.HasError()
HasError(ds) == \E i \in 1 .. Len(ds) : ds[i].severity = "error"

\* the certificates the system's root pool verifies
SystemRoots == { "public-ca" }

\* the certificates x509 finds in the PEM texts drawn: the text of
\* authority A, the text of another authority B, and texts that hold no
\* certificate (the empty string, a text that is not PEM)
PemCerts(pem) ==
    CASE pem = "pem-ca-a" -> { "ca-a" }
      [] pem = "pem-ca-b" -> { "ca-b" }
      [] OTHER -> {}

\* http.DefaultTransport.Clone(), TLSClientConfig = &tls.Config{} (lines
\* 300-319): verification on, RootCAs nil (the system roots), no client
\* certificate
DefaultTransport ==
    [ InsecureSkipVerify |-> FALSE,
      RootCAs |-> [ nil |-> TRUE, certs |-> {} ],
      Certificates |-> << >> ]

\* faulty variant: verification is skipped whenever insecure is set
InsecureSkipVerifyOf_WhenSet(c, tr) == ~IsNull(c.Insecure)

\* lines 321-326
InsecureSkipVerifyOf(c, tr) ==
    IF ~IsNull(c.Insecure) THEN ValueBool(c.Insecure)
    ELSE tr.InsecureSkipVerify

\* caCertPool.AppendCertsFromPEM(...): ok when a certificate was added
AppendCertsFromPEM(pem) == PemCerts(pem) # {}

\* lines 329-337: ca_cert_pem is set and no certificate can be added
CaCertError(c) ==
    ~IsNull(c.CaCertificate) /\ ~AppendCertsFromPEM(ValueString(c.CaCertificate))

\* lines 329-343
RootCAsOf(c, tr) ==
    IF ~IsNull(c.CaCertificate) /\ ~CaCertError(c)
    THEN [ nil |-> FALSE, certs |-> PemCerts(ValueString(c.CaCertificate)) ]
    ELSE tr.RootCAs

\* tls.X509KeyPair(cert, key): of the PEM texts drawn, the certificate
\* "pem-cert-1" parses and "pem-key-1" is its key; "pem-key-2" is the key
\* of another certificate and the empty text holds no PEM block
X509KeyPair(cert, key) == cert = "pem-cert-1" /\ key = "pem-key-1"

\* part_020, line 908
UsesClientCert(c) == ~IsNull(c.ClientCert) /\ ~IsNull(c.ClientKey)

\* part_020, lines 908-916
KeyPairError(c) ==
    /\ UsesClientCert(c)
    /\ ~X509KeyPair(ValueString(c.ClientCert), ValueString(c.ClientKey))

\* part_020, lines 908-918; the step is not reached after a CA error
CertificatesOf(c, tr) ==
    IF UsesClientCert(c) /\ ~CaCertError(c) /\ ~KeyPairError(c)
    THEN << [ cert |-> ValueString(c.ClientCert),
              key |-> ValueString(c.ClientKey) ] >>
    ELSE tr.Certificates

\* clonedTr.TLSClientConfig as Read leaves it
BuildTransport(c) ==
    [ InsecureSkipVerify |-> InsecureSkipVerifyOf(c, DefaultTransport),
      RootCAs |-> RootCAsOf(c, DefaultTransport),
      Certificates |-> CertificatesOf(c, DefaultTransport) ]

TLSClientError ==
    [ severity |-> "error",
      summary |-> "Error configuring TLS client",
      detail |-> "Error tls: Can't add the CA certificate to certificate pool. Only PEM encoded certificates are supported." ]

X509KeyPairError ==
    [ severity |-> "error",
      summary |-> "error creating x509 key pair",
      detail |-> "error creating x509 key pair from provided pem blocks" ]

\* the diagnostics of the client's construction (lines 329-337; part_020,
\* lines 908-916): the first error ends Read
BuildDiags(c) ==
    IF CaCertError(c) THEN << TLSClientError >>
    ELSE IF KeyPairError(c) THEN << X509KeyPairError >>
    ELSE << >>

\* faulty variant: the `return` after AddError is missing
BuildReturns_Never(ds) == FALSE

\* `return` after AddError (lines 336; part_020, lines 899, 915)
BuildReturns(ds) == HasError(ds)

\* retryablehttp.NewClient() (line 355): the library's defaults, ms
defaultRetryWaitMin == 1000
defaultRetryWaitMax == 30000
defaultRetryMax == 4

\* HTTPClient.Timeout is 0: no timeout
NewClient ==
    [ RetryMax |-> defaultRetryMax,
      RetryWaitMin |-> defaultRetryWaitMin,
      RetryWaitMax |-> defaultRetryWaitMax,
      Timeout |-> 0 ]

\* var retry retryModel; model.Retry.As(&retry) when the block is set
\* (lines 345-353): an absent block leaves every field null
RetryModel(c) == IF c.Retry.null THEN RetryNull ELSE c.Retry

\* faulty variant: RetryMax is assigned only when attempts is set, so the
\* library's default stays otherwise
RetryMaxOf_KeepDefault(retry) ==
    IF IsNull(retry.Attempts) THEN defaultRetryMax
    ELSE ValueInt64(retry.Attempts)

\* retryClient.RetryMax = int(retry.Attempts.ValueInt64()) (line 366)
RetryMaxOf(retry) == ValueInt64(retry.Attempts)

\* lines 368-370
RetryWaitMinOf(retry, c) ==
    IF ~IsNull(retry.MinDelay) /\ ValueInt64(retry.MinDelay) >= 0
    THEN ValueInt64(retry.MinDelay) ELSE c.RetryWaitMin

\* lines 372-374
RetryWaitMaxOf(retry, c) ==
    IF ~IsNull(retry.MaxDelay) /\ ValueInt64(retry.MaxDelay) >= 0
    THEN ValueInt64(retry.MaxDelay) ELSE c.RetryWaitMax

\* faulty variant: the timeout is not given to the client
TimeoutOf_NotSet(c, cl) == cl.Timeout

\* lines 358-363: timeout, and retryClient.HTTPClient.Timeout
TimeoutOf(c, cl) ==
    IF ValueInt64(c.RequestTimeout) > 0 THEN ValueInt64(c.RequestTimeout)
    ELSE cl.Timeout

\* the retry client as configured by Read (lines 355-374)
BuildClient(c) ==
    LET retry == RetryModel(c) IN
    [ RetryMax |-> RetryMaxOf(retry),
      RetryWaitMin |-> RetryWaitMinOf(retry, NewClient),
      RetryWaitMax |-> RetryWaitMaxOf(retry, NewClient),
      Timeout |-> TimeoutOf(c, NewClient) ]

\* method := model.Method.ValueString(); if method == "" { method = "GET" }
\* (lines 291-296)
MethodOf(c) ==
    IF ValueString(c.Method) = "" THEN "GET" ELSE ValueString(c.Method)

\* the request body: NewRequestWithContext(..., nil) builds a request with
\* no body (line 376); SetBody attaches the configured string when
\* request_body is not null (lines 386-397)
NoBody == [ set |-> FALSE, bytes |-> "" ]

\* faulty variant: the body is attached whether or not request_body is set
RequestBodyOf_Always(c) ==
    [ set |-> TRUE, bytes |-> ValueString(c.RequestBody) ]

RequestBodyOf(c) ==
    IF ~IsNull(c.RequestBody)
    THEN [ set |-> TRUE, bytes |-> ValueString(c.RequestBody) ]
    ELSE NoBody

\* a map with no entry
EmptyMap == [ n \in {} |-> "" ]

\* m[k] = v
MapSet(m, k, v) ==
    [ n \in DOMAIN m \cup { k } |-> IF n = k THEN v ELSE m[n] ]

\* strings.ToLower, on the header names drawn
ToLower(name) ==
    CASE name = "Host" -> "host"
      [] name = "Accept" -> "accept"
      [] name = "X-Double" -> "x-double"
      [] name = "X-Single" -> "x-single"
      [] OTHER -> name

\* textproto.CanonicalMIMEHeaderKey, on the header names drawn
CanonicalMIMEHeaderKey(name) ==
    CASE ToLower(name) = "host" -> "Host"
      [] ToLower(name) = "accept" -> "Accept"
      [] ToLower(name) = "x-double" -> "X-Double"
      [] ToLower(name) = "x-single" -> "X-Single"
      [] OTHER -> name

\* NewRequestWithContext and SetBody (lines 376-397): no header; net/http
\* initialises the request's Host to the URL's host
BuildRequest(c) ==
    [ Method |-> MethodOf(c),
      URL |-> ValueString(c.URL),
      Body |-> RequestBodyOf(c),
      Header |-> EmptyMap,
      Host |-> UrlHost(ValueString(c.URL)) ]

\* faulty variant: only the key spelled "Host" overrides the Host
IsHostHeader_Exact(name) == name = "Host"

\* strings.ToLower(name) == "host" (line 408)
IsHostHeader(name) == ToLower(name) = "host"

\* one iteration of the loop over request_headers (lines 407-410)
SetHeader(req, name, header) ==
    [ req EXCEPT !.Header = MapSet(req.Header, CanonicalMIMEHeaderKey(name), header),
                 !.Host = IF IsHostHeader(name) THEN header ELSE req.Host ]

\* the loop of lines 399-411 over the map's elements, taken in the order
\* `order` (the iteration order of a Go map is not fixed)
RECURSIVE SetHeaders(_, _, _)
SetHeaders(req, elems, order) ==
    IF order = << >> THEN req
    ELSE SetHeaders(SetHeader(req, Head(order), elems[Head(order)]),
                    elems, Tail(order))

\* the orders in which the keys of a map can be iterated
Orders(keys) ==
    { f \in [ 1 .. Cardinality(keys) -> keys ] :
        \A i, j \in 1 .. Cardinality(keys) : i # j => f[i] # f[j] }

\* what net/http sends: the request's Host when it is not empty (it is
\* empty only when a host header set it to the empty string), the URL's
\* host otherwise
HostSent(req) == IF req.Host # "" THEN req.Host ELSE UrlHost(req.URL)

\* clonedTr.Proxy (lines 312-315): httpproxy.FromEnvironment().ProxyFunc()
\* applied to the request's URL; the proxy the environment names for it
ProxyFunc(srv, u) == srv.proxy

\* the connection of the transport goes to the proxy when clonedTr.Proxy
\* returns one, to the URL's host otherwise; the request's Host has no part
\* in it
DialAddress(req, srv) ==
    IF ProxyFunc(srv, req.URL) # NoProxy THEN ProxyFunc(srv, req.URL)
    ELSE UrlHost(req.URL)

---------------------------------------------------------------------------
(* retryClient.Do(request) (line 413): go-retryablehttp's attempt loop     *)
(* with the client's default CheckRetry (DefaultRetryPolicy) and Backoff   *)
(* (DefaultBackoff), which Read leaves in place.  Read's context is not     *)
(* cancelled while Do runs.                                                *)

\* crypto/tls, for the transport of the client: the server's certificate is
\* verified against RootCAs (the system roots when nil) unless
\* InsecureSkipVerify is set; a plain connection has no handshake
VerifiesServer(tr, srv) ==
    \/ srv.issuer = "none"
    \/ tr.InsecureSkipVerify
    \/ srv.issuer \in (IF tr.RootCAs.nil THEN SystemRoots ELSE tr.RootCAs.certs)

\* what retryClient.HTTPClient.Do can return for one attempt: a network
\* error at any time, a timeout when the server is slow, a certificate
\* verification error when the handshake fails, a response otherwise
OutcomesFor(tr, srv) ==
    { NetErr } \cup
    (IF srv.slow THEN { TimeoutErr } ELSE {}) \cup
    (IF VerifiesServer(tr, srv) THEN Responses ELSE { CertErr })

\* http.Client.Timeout bounds one call of HTTPClient.Do: an attempt that
\* ends otherwise ended before the timeout; 0 is no timeout
WithinTimeout(cl, o, d) ==
    (cl.Timeout > 0 /\ o.kind # "timeout") => d < cl.Timeout

\* the time the attempt took
Elapsed(cl, o, d) ==
    IF cl.Timeout > 0 /\ o.kind = "timeout" THEN cl.Timeout ELSE d

\* DefaultRetryPolicy: a client error is retried unless it is permanent (a
\* certificate verification failure); a response is retried on 429 and on
\* any 5xx but 501 (and on the invalid status 0).  The policy returns no
\* error of its own: a retryable status carries no cause.
CheckRetry(o) ==
    CASE o.kind = "neterr" -> TRUE
      [] o.kind = "timeout" -> TRUE
      [] o.kind = "certerr" -> FALSE
      [] OTHER -> \/ o.status = 429
                  \/ o.status = 0
                  \/ (o.status >= 500 /\ o.status # 501)

RECURSIVE Pow2(_)
Pow2(n) == IF n <= 0 THEN 1 ELSE 2 * Pow2(n - 1)

\* DefaultBackoff(min, max, attemptNum, resp): the Retry-After header of a
\* 429 or 503 response decides alone; otherwise min * 2^attemptNum, capped
\* at max
Backoff(min, max, attemptNum, o) ==
    IF /\ o.kind = "resp"
       /\ o.status \in { 429, 503 }
       /\ Len(o.retryAfter) > 0
       /\ o.retryAfter[1] >= 0
    THEN o.retryAfter[1] * 1000
    ELSE LET mult == Pow2(attemptNum) * min
         IN  IF mult > max THEN max ELSE mult

\* faulty variant: the exit test is off by one
LoopBreaks_OffByOne(retry, retryMax, i) == ~retry \/ retryMax - i < 0

\* the loop's exit test after attempt number i (0-based):
\*   if !shouldRetry { break };  remain := c.RetryMax - i;
\*   if remain <= 0 { break }
LoopBreaks(retry, retryMax, i) == ~retry \/ retryMax - i <= 0

\* faulty variant: the client error is not wrapped into the message
GiveUpError_NoCause(req, n, o) ==
    [ Method |-> req.Method, URL |-> req.URL, attempts |-> n, cause |-> "none" ]

\* Do's error once the loop is left without success: "<method> <url> giving
\* up after <attempt> attempt(s)", followed by ": <err>" when the last
\* attempt ended in a client error (err = doErr)
GiveUpError(req, n, o) ==
    [ Method |-> req.Method,
      URL |-> req.URL,
      attempts |-> n,
      cause |-> IF o.kind = "resp" THEN "none" ELSE o.kind ]

\* Do's success test: doErr == nil && checkErr == nil && !shouldRetry
DoSucceeds(o, retry) == o.kind = "resp" /\ ~retry

---------------------------------------------------------------------------
(* httpDataSource.Read after Do returned (lines 413-481).                  *)

\* bytes are 0 .. 255; a body is a sequence of bytes

\* a continuation byte of UTF-8: 10xxxxxx
IsCont(c) == c >= 128 /\ c <= 191

\* the tail of a sequence after its first n elements
Drop(b, n) == SubSeq(b, n + 1, Len(b))

\* utf8.Valid(bytes) (line 450): every byte belongs to a well-formed
\* encoding of 1 to 4 bytes, with no overlong form, no surrogate and
\* nothing above U+10FFFF
RECURSIVE Utf8Valid(_)
Utf8Valid(b) ==
    IF Len(b) = 0 THEN TRUE
    ELSE LET c == b[1] IN
         IF c < 128 THEN Utf8Valid(Drop(b, 1))
         ELSE IF c >= 194 /\ c <= 223
              THEN Len(b) >= 2 /\ IsCont(b[2]) /\ Utf8Valid(Drop(b, 2))
         ELSE IF c >= 224 /\ c <= 239
              THEN /\ Len(b) >= 3
                   /\ b[2] >= (IF c = 224 THEN 160 ELSE 128)
                   /\ b[2] <= (IF c = 237 THEN 159 ELSE 191)
                   /\ IsCont(b[3])
                   /\ Utf8Valid(Drop(b, 3))
         ELSE IF c >= 240 /\ c <= 244
              THEN /\ Len(b) >= 4
                   /\ b[2] >= (IF c = 240 THEN 144 ELSE 128)
                   /\ b[2] <= (IF c = 244 THEN 143 ELSE 191)
                   /\ IsCont(b[3])
                   /\ IsCont(b[4])
                   /\ Utf8Valid(Drop(b, 4))
         ELSE FALSE

\* utf8.DecodeRune at the head of b: the length of the well-formed encoding
\* that starts there, 0 when the first byte starts none
RuneLen(b) ==
    LET c == b[1] IN
    IF c < 128 THEN 1
    ELSE IF c >= 194 /\ c <= 223
         THEN IF Len(b) >= 2 /\ IsCont(b[2]) THEN 2 ELSE 0
    ELSE IF c >= 224 /\ c <= 239
         THEN IF /\ Len(b) >= 3
                 /\ b[2] >= (IF c = 224 THEN 160 ELSE 128)
                 /\ b[2] <= (IF c = 237 THEN 159 ELSE 191)
                 /\ IsCont(b[3])
              THEN 3 ELSE 0
    ELSE IF c >= 240 /\ c <= 244
         THEN IF /\ Len(b) >= 4
                 /\ b[2] >= (IF c = 240 THEN 144 ELSE 128)
                 /\ b[2] <= (IF c = 244 THEN 143 ELSE 191)
                 /\ IsCont(b[3])
                 /\ IsCont(b[4])
              THEN 4 ELSE 0
    ELSE 0

\* U+FFFD, the replacement character, in UTF-8
ReplacementChar == << 239, 191, 189 >>

\* the text that the state holds for string(bytes) (lines 457, 474-475,
\* 478): a string attribute of the state is text, and every byte that
\* belongs to no well-formed encoding is kept as U+FFFD
RECURSIVE ToValidUTF8(_)
ToValidUTF8(b) ==
    IF Len(b) = 0 THEN << >>
    ELSE IF RuneLen(b) = 0
         THEN ReplacementChar \o ToValidUTF8(Drop(b, 1))
         ELSE SubSeq(b, 1, RuneLen(b)) \o ToValidUTF8(Drop(b, RuneLen(b)))

Utf8Warning ==
    [ severity |-> "warning",
      summary |-> "Response body is not recognized as UTF-8",
      detail |-> "Terraform may not properly handle the response_body if the contents are binary." ]

\* faulty variant: the diagnostic is added as an error
BodyDiags_AddError(bytes) ==
    IF ~Utf8Valid(bytes)
    THEN << [ Utf8Warning EXCEPT !.severity = "error" ] >>
    ELSE << >>

\* lines 450-455: resp.Diagnostics.AddWarning when the body is not UTF-8
BodyDiags(bytes) == IF ~Utf8Valid(bytes) THEN << Utf8Warning >> ELSE << >>

\* the alphabet of base64.StdEncoding (RFC 4648, section 4); a text is a
\* sequence of characters
encodeStd ==
    << "A", "B", "C", "D", "E", "F", "G", "H", "I", "J", "K", "L", "M",
       "N", "O", "P", "Q", "R", "S", "T", "U", "V", "W", "X", "Y", "Z",
       "a", "b", "c", "d", "e", "f", "g", "h", "i", "j", "k", "l", "m",
       "n", "o", "p", "q", "r", "s", "t", "u", "v", "w", "x", "y", "z",
       "0", "1", "2", "3", "4", "5", "6", "7", "8", "9", "+", "/" >>

\* base64.StdPadding, and base64.NoPadding
StdPadding == << "=" >>
NoPadding == << >>

\* (*Encoding).EncodeToString with the standard alphabet and the padding
\* `pad`: three bytes give four characters of six bits each; a last group
\* of one or two bytes gives two or three characters and the padding
RECURSIVE Encode(_, _)
Encode(b, pad) ==
    IF Len(b) = 0 THEN << >>
    ELSE IF Len(b) = 1
         THEN << encodeStd[(b[1] \div 4) + 1],
                 encodeStd[((b[1] % 4) * 16) + 1] >> \o pad \o pad
    ELSE IF Len(b) = 2
         THEN << encodeStd[(b[1] \div 4) + 1],
                 encodeStd[((b[1] % 4) * 16 + b[2] \div 16) + 1],
                 encodeStd[((b[2] % 16) * 4) + 1] >> \o pad
    ELSE << encodeStd[(b[1] \div 4) + 1],
            encodeStd[((b[1] % 4) * 16 + b[2] \div 16) + 1],
            encodeStd[((b[2] % 16) * 4 + b[3] \div 64) + 1],
            encodeStd[(b[3] % 64) + 1] >> \o Encode(Drop(b, 3), pad)

\* faulty variant: base64.RawStdEncoding, which leaves the padding out
EncodeToString_Raw(b) == Encode(b, NoPadding)

\* base64.StdEncoding.EncodeToString(bytes) (line 458)
EncodeToString(b) == Encode(b, StdPadding)

\* response.Header as net/http builds it from the header lines received:
\* Add(name, value) appends the value under the canonical form of the name
HeaderAdd(h, name, value) ==
    LET k == CanonicalMIMEHeaderKey(name)
    IN  [ n \in DOMAIN h \cup { k } |->
            IF n = k
            THEN (IF k \in DOMAIN h THEN Append(h[k], value) ELSE << value >>)
            ELSE h[n] ]

RECURSIVE ReadHeader(_)
ReadHeader(lines) ==
    IF Len(lines) = 0 THEN [ n \in {} |-> << >> ]
    ELSE LET line == lines[Len(lines)]
         IN  HeaderAdd(ReadHeader(SubSeq(lines, 1, Len(lines) - 1)),
                       line[1], line[2])

\* strings.Join(v, sep)
RECURSIVE Join(_, _)
Join(v, sep) ==
    IF Len(v) = 0 THEN ""
    ELSE IF Len(v) = 1 THEN v[1]
    ELSE v[1] \o sep \o Join(Tail(v), sep)

\* faulty variant: only the first value of a header is kept
ResponseHeadersOf_First(header) ==
    [ k \in DOMAIN header |-> header[k][1] ]

\* lines 460-464: responseHeaders[k] = strings.Join(v, ", ")
ResponseHeadersOf(header) ==
    [ k \in DOMAIN header |-> Join(header[k], ", ") ]

NoState ==
    [ written |-> FALSE, ID |-> "", ResponseHeaders |-> EmptyMap,
      ResponseBody |-> << >>, Body |-> << >>, ResponseBodyBase64 |-> << >>,
      StatusCode |-> 0 ]

\* faulty variant: the deprecated body is left empty
StateOf_NoBody(c, o, srv) ==
    [ written |-> TRUE,
      ID |-> ValueString(c.URL),
      ResponseHeaders |-> ResponseHeadersOf(ReadHeader(srv.headers)),
      ResponseBody |-> ToValidUTF8(srv.body),
      Body |-> << >>,
      ResponseBodyBase64 |-> EncodeToString(srv.body),
      StatusCode |-> o.status ]

\* lines 457-479: the computed fields of the model, then resp.State.Set;
\* the state holds string(bytes) as text
StateOf(c, o, srv) ==
    [ written |-> TRUE,
      ID |-> ValueString(c.URL),
      ResponseHeaders |-> ResponseHeadersOf(ReadHeader(srv.headers)),
      ResponseBody |-> ToValidUTF8(srv.body),
      Body |-> ToValidUTF8(srv.body),
      ResponseBodyBase64 |-> EncodeToString(srv.body),
      StatusCode |-> o.status ]

\* lines 432-435: resp.Diagnostics.AddError("Error making request", ...)
ErrorMakingRequest(err) ==
    [ severity |-> "error",
      summary |-> "Error making request",
      detail |-> err ]

\* errors.As(err, &target) && target.Timeout() (lines 415-417): the error of
\* Do wraps the last attempt's client error
IsTimeout(err) == err.cause = "timeout"

\* lines 418-422: "timeout error: <err>", or "request exceeded the specified
\* timeout: <timeout>, err: <err>" when a timeout is configured
TimeoutDetail(err, timeout) ==
    IF timeout > 0
    THEN [ text |-> "request exceeded the specified timeout",
           timeout |-> timeout, err |-> err ]
    ELSE [ text |-> "timeout error", timeout |-> 0, err |-> err ]

\* lines 414-437: the diagnostic for an error of Do
RequestError(err, timeout) ==
    IF IsTimeout(err)
    THEN [ severity |-> "error",
           summary |-> "Error making request",
           detail |-> TimeoutDetail(err, timeout) ]
    ELSE ErrorMakingRequest(err)

\* io.ReadAll(response.Body) (line 441): the body is read after Do
\* returned, still under HTTPClient.Timeout; a slow server can let the read
\* run into it
ReadErrs(cl, srv) ==
    { "none" } \cup (IF srv.slow /\ cl.Timeout > 0 THEN { "timeout" } ELSE {})

\* lines 442-448
ErrorReadingBody(err) ==
    [ severity |-> "error",
      summary |-> "Error reading response body",
      detail |-> err ]

---------------------------------------------------------------------------
(* The http resource (src/unnamed/part_020).  Its model is the data        *)
(* source's with `when` and the client certificate; Create, Update and     *)
(* Delete call performRequest (lines 854-1053), the routine of Read above. *)
(* A computed field that is unknown in a plan is carried as null: the      *)
(* handlers test IsNull() || IsUnknown() together.                         *)

\* most operations of one resource that are followed
MaxOps == 4

\* when: unset, the two values of the schema, a value it rejects
WhenVals == { StringNull, StringValue("apply"), StringValue("destroy"),
              StringValue("never") }

\* stringvalidator.OneOf("apply", "destroy") (lines 656-667)
WhenOneOf(w) == IsNull(w) \/ ValueString(w) \in { "apply", "destroy" }

\* lines 728-731, 810-813, 842-845: "apply" unless `when` is set
WhenValue(w) == IF ~IsNull(w) THEN ValueString(w) ELSE "apply"

\* faulty variant: the request is sent whatever `when` says
SendsOnApply_Always(w) == TRUE

\* lines 733 and 815: Create and Update call performRequest
SendsOnApply(w) == WhenValue(w) = "apply"

\* line 847: Delete calls performRequest
SendsOnDestroy(w) == WhenValue(w) = "destroy"

\* the URLs of the resource's configurations
ResourceUrls == { "http://a.test", "http://b.test" }

\* the configurations of the resource: no retry block, so that Do makes one
\* attempt, and TLS settings from which performRequest builds its client
ResourceConfigs ==
    [ URL : { StringValue(u) : u \in ResourceUrls },
      Method : { StringNull },
      RequestBody : { StringNull },
      Retry : { RetryNull },
      Insecure : { BoolNull },
      CaCertificate : { StringNull },
      ClientCert : { StringNull },
      ClientKey : { StringNull },
      RequestTimeout : { Int64Null },
      RequestHeaders : { MapNull } ]

\* the plans Terraform hands to Create and Update: the configurations the
\* schema validators accept
Plans ==
    { p \in [ config : ResourceConfigs, When : WhenVals ] :
        ValidateConfig(p.config) = {} /\ WhenOneOf(p.When) }

\* the server of the resource's URLs: plain, one header line, the body "A"
ResourceServer == Server("none", FALSE, << << "X-Single", "foobar" >> >>, << 65 >>)

\* the empty text of a body field (a text of the response is a sequence of
\* bytes or of characters)
EmptyText == << >>

\* a body field that is null
TextNull == [ null |-> TRUE, v |-> EmptyText ]

\* the computed attributes (lines 669-712)
NullComputed ==
    [ ID |-> StringNull, ResponseHeaders |-> MapNull,
      ResponseBody |-> TextNull, Body |-> TextNull,
      ResponseBodyBase64 |-> TextNull, StatusCode |-> Int64Null ]

\* faulty variant: the default id is left empty
DefaultComputed_EmptyId(url) ==
    [ ID |-> StringValue(""), ResponseHeaders |-> MapValue(EmptyMap),
      ResponseBody |-> StringValue(EmptyText), Body |-> StringValue(EmptyText),
      ResponseBodyBase64 |-> StringValue(EmptyText),
      StatusCode |-> Int64Value(0) ]

\* lines 739-748: the computed fields Create writes when it sends nothing
DefaultComputed(url) ==
    [ ID |-> StringValue(ValueString(url)),
      ResponseHeaders |-> MapValue(EmptyMap),
      ResponseBody |-> StringValue(EmptyText), Body |-> StringValue(EmptyText),
      ResponseBodyBase64 |-> StringValue(EmptyText),
      StatusCode |-> Int64Value(0) ]

\* lines 1044-1049: the computed fields performRequest assigns to the model
\* before it returns nil; it assigns none when it returns an error
PerformedComputed(st) ==
    IF st.written
    THEN [ ID |-> StringValue(st.ID),
           ResponseHeaders |-> MapValue(st.ResponseHeaders),
           ResponseBody |-> StringValue(st.ResponseBody),
           Body |-> StringValue(st.Body),
           ResponseBodyBase64 |-> StringValue(st.ResponseBodyBase64),
           StatusCode |-> Int64Value(st.StatusCode) ]
    ELSE NullComputed

\* the model: the arguments of a plan and the computed fields
ModelOf(p, computed) ==
    [ exists |-> TRUE, config |-> p.config, When |-> p.When,
      ID |-> computed.ID, ResponseHeaders |-> computed.ResponseHeaders,
      ResponseBody |-> computed.ResponseBody, Body |-> computed.Body,
      ResponseBodyBase64 |-> computed.ResponseBodyBase64,
      StatusCode |-> computed.StatusCode ]

\* the arguments of a model
PlanOf(st) == [ config |-> st.config, When |-> st.When ]

\* the computed fields of a model
ComputedOf(m) ==
    [ ID |-> m.ID, ResponseHeaders |-> m.ResponseHeaders,
      ResponseBody |-> m.ResponseBody, Body |-> m.Body,
      ResponseBodyBase64 |-> m.ResponseBodyBase64,
      StatusCode |-> m.StatusCode ]

\* lines 821-826: Update with when = "destroy" takes the computed fields of
\* the prior state
KeptComputed(st) == ComputedOf(st)

\* a configuration with every attribute unset
NullConfig ==
    [ URL |-> StringNull, Method |-> StringNull, RequestBody |-> StringNull,
      Retry |-> RetryNull, Insecure |-> BoolNull, CaCertificate |-> StringNull,
      ClientCert |-> StringNull, ClientKey |-> StringNull,
      RequestTimeout |-> Int64Null, RequestHeaders |-> MapNull ]

\* no resource in the Terraform state
NoResource ==
    [ exists |-> FALSE, config |-> NullConfig, When |-> StringNull,
      ID |-> StringNull, ResponseHeaders |-> MapNull,
      ResponseBody |-> TextNull, Body |-> TextNull,
      ResponseBodyBase64 |-> TextNull, StatusCode |-> Int64Null ]

NoPlan == [ config |-> NullConfig, When |-> StringNull ]

\* faulty variant: Read resets every computed field to its default
FilledComputed_Defaults(st) == DefaultComputed(st.config.URL)

\* lines 764-782: Read gives a default to each computed field that is null
\* or unknown and leaves the others
FilledComputed(st) ==
    [ ID |-> IF IsNull(st.ID)
             THEN StringValue(ValueString(st.config.URL)) ELSE st.ID,
      ResponseHeaders |-> IF IsNull(st.ResponseHeaders)
                          THEN MapValue(EmptyMap) ELSE st.ResponseHeaders,
      ResponseBody |-> IF IsNull(st.ResponseBody)
                       THEN StringValue(EmptyText) ELSE st.ResponseBody,
      Body |-> IF IsNull(st.Body) THEN StringValue(EmptyText) ELSE st.Body,
      ResponseBodyBase64 |-> IF IsNull(st.ResponseBodyBase64)
                             THEN StringValue(EmptyText)
                             ELSE st.ResponseBodyBase64,
      StatusCode |-> IF IsNull(st.StatusCode)
                     THEN Int64Value(0) ELSE st.StatusCode ]

\* faulty variant: the state is set whether performRequest failed or not
WritesState_Always(err) == TRUE

\* lines 734-737 and 816-819: `if err != nil { return }` before
\* resp.State.Set
WritesState(err) == ~err

\* the last operation that ended: its kind, the arguments it acted on (the
\* plan, or the stored ones for Read and Delete), whether it sent a request,
\* whether it ended with an error diagnostic, whether it set the state
NoOp == [ kind |-> "none", plan |-> NoPlan, sent |-> FALSE, err |-> FALSE,
          wrote |-> FALSE ]

Op(kind, plan, sent, err, wrote) ==
    [ kind |-> kind, plan |-> plan, sent |-> sent, err |-> err,
      wrote |-> wrote ]

\* the computed fields of a state that an earlier run left: all unset, the
\* ones of a version that had neither body nor response_body_base64, and a
\* full response
StoredComputed ==
    { NullComputed,
      [ NullComputed EXCEPT
          !.ID = StringValue("http://a.test"),
          !.ResponseHeaders = MapValue([ k \in { "X-Single" } |-> "foobar" ]),
          !.ResponseBody = StringValue(<< 65 >>),
          !.StatusCode = Int64Value(200) ],
      [ ID |-> StringValue("http://a.test"),
        ResponseHeaders |-> MapValue([ k \in { "X-Single" } |-> "foobar" ]),
        ResponseBody |-> StringValue(<< 65 >>),
        Body |-> StringValue(<< 65 >>),
        ResponseBodyBase64 |-> StringValue(EncodeToString(<< 65 >>)),
        StatusCode |-> Int64Value(200) ] }

\* the states of http://a.test that an earlier run left
StoredStates ==
    { ModelOf(p, c) : p \in { q \in Plans : ValueString(q.config.URL) = "http://a.test" },
                      c \in StoredComputed }

\* the resource before any operation
IdleResource ==
    [ stored |-> NoResource, plan |-> NoPlan, prior |-> NoResource,
      op |-> "none", ops |-> 0, last |-> NoOp ]

---------------------------------------------------------------------------
(* Two invocations at once.  Terraform calls Read / performRequest for     *)
(* several blocks concurrently; http.DefaultTransport is one object of the *)
(* process.  The transports are kept in a heap, an invocation holds the    *)
(* reference of the one it configures (clonedTr), and the statements of    *)
(* lines 300-343 (part_020, lines 865-918) interleave.                     *)

Invocations == { 1, 2 }

\* the reference of http.DefaultTransport
DefaultRef == "default"

\* faulty variant: the invocation configures the default transport itself
CloneRef_Shared(i) == DefaultRef

\* clonedTr := tr.Clone() (line 310): a transport of the invocation's own
CloneRef(i) == IF i = 1 THEN "clone-1" ELSE "clone-2"

\* tr.Clone() copies the fields of the default transport, its TLS
\* configuration included, into the transport `ref`
Clone(heap, ref) ==
    [ a \in DOMAIN heap \cup { ref } |->
        IF a = ref THEN heap[DefaultRef] ELSE heap[a] ]

\* the transports before any invocation
InitialHeap == [ a \in { DefaultRef } |-> DefaultTransport ]

\* the TLS settings of the concurrent invocations: none, insecure,
\* ca_cert_pem of authority A, a ca_cert_pem with no certificate, a client
\* certificate with its key
ConcurrentConfigs ==
    { c \in [ URL : { StringValue("https://a.test") },
              Method : { StringNull },
              RequestBody : { StringNull },
              Retry : { RetryNull },
              Insecure : { BoolNull, BoolValue(TRUE) },
              CaCertificate : { StringNull, StringValue(""),
                                StringValue("pem-ca-a") },
              ClientCert : { StringNull, StringValue("pem-cert-1") },
              ClientKey : { StringNull, StringValue("pem-key-1") },
              RequestTimeout : { Int64Null },
              RequestHeaders : { MapNull } ] :
        ValidateConfig(c) = {} }

\* an invocation before its first statement
Invocation(c) ==
    [ cfg |-> c, pc |-> "clone", ref |-> DefaultRef, sent |-> FALSE,
      used |-> DefaultTransport, err |-> FALSE ]

\* no invocation
IdleInvocations == [ heap |-> InitialHeap, inv |-> << >> ]

---------------------------------------------------------------------------
(* The provider's proxy configuration (src/internal/provider/provider.go   *)
(* and validators.go).  At Configure an attribute of the configuration is  *)
(* null, unknown (its value comes from something not yet applied) or known. *)

AttrNull == [ kind |-> "null", v |-> "" ]
AttrUnknown == [ kind |-> "unknown", v |-> "" ]
AttrValue(v) == [ kind |-> "known", v |-> v ]
\* the same for a types.Bool
BoolAttrNull == [ kind |-> "null", v |-> FALSE ]
BoolAttrUnknown == [ kind |-> "unknown", v |-> FALSE ]

AttrIsNull(a) == a.kind = "null"
AttrIsUnknown(a) == a.kind = "unknown"

\* !x.IsNull() && !x.IsUnknown(), the test of Configure (lines 111, 122,
\* 131, 138)
AttrIsKnown(a) == ~AttrIsNull(a) /\ ~AttrIsUnknown(a)

\* the proxy URLs drawn: one of an accepted scheme, one whose scheme is not
\* accepted, one with no host, one that url.Parse rejects
ProxyUrls == { "http://proxy.test", "ftp://proxy.test", "proxy.test", ":" }

\* url.Parse of the texts drawn: whether it succeeds, the scheme, the host
UrlParse(u) ==
    CASE u = "http://proxy.test" -> [ ok |-> TRUE, scheme |-> "http", host |-> "proxy.test" ]
      [] u = "ftp://proxy.test" -> [ ok |-> TRUE, scheme |-> "ftp", host |-> "proxy.test" ]
      [] u = "proxy.test" -> [ ok |-> TRUE, scheme |-> "", host |-> "" ]
      [] OTHER -> [ ok |-> FALSE, scheme |-> "", host |-> "" ]

\* supportedProxySchemes (lines 160-177)
supportedProxySchemes == { "http", "https", "socks5" }

\* the proxy block: absent, unknown, or an object of four attributes
ProxyNull ==
    [ kind |-> "null", URL |-> AttrNull, Username |-> AttrNull,
      Password |-> AttrNull, FromEnv |-> BoolAttrNull ]

ProxyUnknown ==
    [ kind |-> "unknown", URL |-> AttrNull, Username |-> AttrNull,
      Password |-> AttrNull, FromEnv |-> BoolAttrNull ]

ProxyConfigs ==
    { ProxyNull, ProxyUnknown } \cup
    [ kind : { "known" },
      URL : { AttrNull, AttrUnknown } \cup { AttrValue(u) : u \in ProxyUrls },
      Username : { AttrNull, AttrUnknown, AttrValue("user") },
      Password : { AttrNull, AttrUnknown, AttrValue("secret") },
      FromEnv : { BoolAttrNull, BoolAttrUnknown, AttrValue(TRUE),
                  AttrValue(FALSE) } ]

\* urlWithSchemeAttributeValidator.Validate (validators.go, lines 40-91):
\* whether it adds an error
UrlWithScheme(v) ==
    /\ ~AttrIsNull(v)
    /\ ~AttrIsUnknown(v)
    /\ \/ ~UrlParse(v.v).ok
       \/ UrlParse(v.v).host = ""
       \/ UrlParse(v.v).scheme \notin supportedProxySchemes

\* faulty variant: the validator never adds an error
RequiredWith_Never(v, others) == FALSE

\* requiredWithAttributeValidator.Validate (validators.go, lines 118-146):
\* an error when the attribute is not null and one of the others is null
RequiredWith(v, others) ==
    \E o \in others : ~AttrIsNull(v) /\ AttrIsNull(o)

\* conflictsWithAttributeValidator.Validate (validators.go, lines 173-201):
\* an error when the attribute and one of the others are both not null
ProxyConflictsWith(v, others) ==
    \E o \in others : ~AttrIsNull(v) /\ ~AttrIsNull(o)

\* the validators of the schema (provider.go, lines 29-82): the attributes
\* of the proxy block that get an error; the attributes of an absent or
\* unknown block are not validated
ValidateProxy(px) ==
    IF px.kind # "known" THEN {}
    ELSE (IF UrlWithScheme(px.URL) \/ ProxyConflictsWith(px.URL, { px.FromEnv })
          THEN { "url" } ELSE {})
         \cup
         (IF RequiredWith(px.Username, { px.URL })
          THEN { "username" } ELSE {})
         \cup
         (IF RequiredWith(px.Password, { px.Username })
          THEN { "password" } ELSE {})
         \cup
         (IF ProxyConflictsWith(px.FromEnv,
                                { px.URL, px.Username, px.Password })
          THEN { "from_env" } ELSE {})

\* *url.Userinfo: nil, or a user name and, possibly, a password
NilUser == [ nil |-> TRUE, username |-> "", password |-> "",
             passwordSet |-> FALSE ]

\* url.User(username)
User(username) ==
    [ nil |-> FALSE, username |-> username, password |-> "",
      passwordSet |-> FALSE ]

\* url.UserPassword(username, password)
UserPassword(username, password) ==
    [ nil |-> FALSE, username |-> username, password |-> password,
      passwordSet |-> TRUE ]

\* (*url.Userinfo).Username(): "" on a nil receiver
UsernameOf(u) == IF u.nil THEN "" ELSE u.username

\* p.proxyURL: nil, or the URL parsed and its User
NilURL == [ nil |-> TRUE, url |-> "", User |-> NilUser ]

\* line 116: url.Parse returns a nil URL with its error
ParsedURL(u) ==
    IF UrlParse(u).ok THEN [ nil |-> FALSE, url |-> u, User |-> NilUser ]
    ELSE NilURL

UnableToParse(u) ==
    [ severity |-> "error", summary |-> "Unable to parse proxy URL",
      detail |-> u ]

\* isProxyConfigured (lines 201-203)
isProxyConfigured(pv) == ~pv.proxyURL.nil \/ pv.proxyFromEnv

\* proxyForRequestFunc (lines 211-246): the policy the requests get: the
\* URL of the configuration, the environment's, or none
proxyForRequestFunc(pv) ==
    IF ~isProxyConfigured(pv) THEN "none"
    ELSE IF ~pv.proxyURL.nil THEN "url"
    ELSE IF pv.proxyFromEnv THEN "env"
    ELSE "none"

\* the provider before Configure, with the configuration px
Provider(px, at) ==
    [ conf |-> px, pc |-> at, valDiags |-> {}, proxyURL |-> NilURL,
      proxyFromEnv |-> FALSE, diags |-> << >> ]

\* no provider configuration is looked at
IdleProvider == Provider(ProxyNull, "none")

---------------------------------------------------------------------------
(* The state machine.                                                      *)

\* an evaluation starts: a configuration of `configs` and the server of
\* `servers` that its URL names
Start(configs, servers) ==
    /\ cfg \in configs
    /\ server \in servers
    /\ ServesUrl(server, ValueString(cfg.URL))
    /\ pc = "validate"
    /\ valDiags = {}
    /\ transport = DefaultTransport
    /\ client = NewClient
    /\ request = [ Method |-> "", URL |-> "", Body |-> NoBody,
                   Header |-> EmptyMap, Host |-> "" ]
    /\ attempt = 0
    /\ resp = NoOutcome
    /\ shouldRetry = FALSE
    /\ wait = 0
    /\ waits = << >>
    /\ clock = 0
    /\ starts = << >>
    /\ prevResp = NoOutcome
    /\ diags = << >>
    /\ state = NoState
    /\ res = IdleResource
    /\ conc = IdleInvocations
    /\ prov = IdleProvider

Init == Start(Configs, Servers)

\* ValidateDataSourceConfig: the schema validators; Read is called only for
\* a configuration they accept
Validate ==
    /\ pc = "validate"
    /\ valDiags' = ValidateConfig(cfg)
    /\ pc' = IF valDiags' = {} THEN "read" ELSE "rejected"
    /\ UNCHANGED << cfg, server, transport, client, request, attempt, resp,
                    shouldRetry, wait, waits, clock, starts, prevResp, diags,
                    state >>
    /\ UNCHANGED << res, conc, prov >>

\* Read, lines 282-411: the transport, the client and the request; an error
\* of the construction ends Read
ReadBuild ==
    /\ pc = "read"
    /\ transport' = BuildTransport(cfg)
    /\ diags' = BuildDiags(cfg)
    /\ IF BuildReturns(diags')
       THEN /\ pc' = "done"
            /\ UNCHANGED << client, request >>
       ELSE /\ pc' = "attempt"
            /\ client' = BuildClient(cfg)
            /\ \E order \in Orders(DOMAIN Elements(cfg.RequestHeaders)) :
                 request' = SetHeaders(BuildRequest(cfg),
                                       Elements(cfg.RequestHeaders), order)
    /\ UNCHANGED << cfg, server, valDiags, attempt, resp, shouldRetry, wait,
                    waits, clock, starts, prevResp, state >>
    /\ UNCHANGED << res, conc, prov >>

\* one iteration of Do's loop: the request is sent, the attempt ends in
\* outcome o after d ms, CheckRetry runs, and the loop is left or the
\* backoff is computed
DoAttempt ==
    /\ pc = "attempt"
    /\ \E o \in OutcomesFor(transport, server), d \in Durations :
         LET i == attempt
             retry == CheckRetry(o)
         IN  /\ WithinTimeout(client, o, d)
             /\ attempt' = attempt + 1
             /\ starts' = Append(starts, clock)
             /\ prevResp' = resp
             /\ clock' = clock + Elapsed(client, o, d)
             /\ resp' = o
             /\ shouldRetry' = retry
             /\ IF LoopBreaks(retry, client.RetryMax, i)
                THEN /\ pc' = "returned"
                     /\ wait' = 0
                ELSE /\ pc' = "wait"
                     /\ wait' = Backoff(client.RetryWaitMin,
                                        client.RetryWaitMax, i, o)
    /\ UNCHANGED << cfg, server, valDiags, transport, client, request, waits,
                    diags, state >>
    /\ UNCHANGED << res, conc, prov >>

\* the timer of the backoff fires
DoWait ==
    /\ pc = "wait"
    /\ clock' = clock + wait
    /\ waits' = Append(waits, wait)
    /\ pc' = "attempt"
    /\ UNCHANGED << cfg, server, valDiags, transport, client, request,
                    attempt, resp, shouldRetry, wait, starts, prevResp, diags,
                    state >>
    /\ UNCHANGED << res, conc, prov >>

\* Do returns and Read ends: the body is read and the state is set from
\* the response, or the error is reported and no state is set
ReadFinish ==
    /\ pc = "returned"
    /\ IF DoSucceeds(resp, shouldRetry)
       THEN \E readErr \in ReadErrs(client, server) :
              IF readErr = "none"
              THEN /\ state' = StateOf(cfg, resp, server)
                   /\ diags' = diags \o BodyDiags(server.body)
                   /\ clock' = clock
              ELSE /\ diags' = Append(diags, ErrorReadingBody(readErr))
                   /\ state' = state
                   /\ clock' = starts[attempt] + client.Timeout
       ELSE /\ diags' = Append(diags,
                  RequestError(GiveUpError(request, attempt, resp),
                               client.Timeout))
            /\ state' = state
            /\ clock' = clock
    /\ pc' = "done"
    /\ UNCHANGED << cfg, server, valDiags, transport, client, request,
                    attempt, resp, shouldRetry, wait, waits, starts, prevResp >>
    /\ UNCHANGED << res, conc, prov >>

Next ==
    \/ Validate
    \/ ReadBuild
    \/ DoAttempt
    \/ DoWait
    \/ ReadFinish

Spec == Init /\ [][Next]_vars

\* the evaluations of the request headers
InitHeaders ==
    Start(HeaderConfigs,
          { Server("none", FALSE, << >>, << >>),
            ViaProxy(Server("none", FALSE, << >>, << >>), "proxy.test") })

SpecHeaders == InitHeaders /\ [][Next]_vars

\* the evaluations of the response mapping
InitResponse == Start(ResponseConfigs, ResponseServers)

SpecResponse == InitResponse /\ [][Next]_vars

\* the evaluations of the timeout configurations
InitTimeout == Start(TimeoutConfigs, TimeoutServers)

SpecTimeout == InitTimeout /\ [][Next]_vars

\* the evaluations of the TLS configurations
InitTLS == Start(TLSConfigs, TLSServers)

SpecTLS == InitTLS /\ [][Next]_vars

---------------------------------------------------------------------------
(* The operations of the http resource (src/unnamed/part_020, lines        *)
(* 719-852).  An operation that calls performRequest runs the steps of     *)
(* Read above (ReadBuild, DoAttempt, ReadFinish) on its own model and ends  *)
(* when they are done; `state` is then the model performRequest filled,    *)
(* with state.written telling that it returned nil.  The configurations    *)
(* drawn have no retry block: Do never waits.                              *)

\* the variables of one run of performRequest
handler == << cfg, server, pc, valDiags, transport, client, request, attempt,
              resp, shouldRetry, wait, waits, clock, starts, prevResp, diags,
              state >>

NoRequest == [ Method |-> "", URL |-> "", Body |-> NoBody,
               Header |-> EmptyMap, Host |-> "" ]

\* no handler is running
HandlerIdle ==
    /\ cfg = NullConfig
    /\ server = ResourceServer
    /\ pc = "idle"
    /\ valDiags = {}
    /\ transport = DefaultTransport
    /\ client = NewClient
    /\ request = NoRequest
    /\ attempt = 0
    /\ resp = NoOutcome
    /\ shouldRetry = FALSE
    /\ wait = 0
    /\ waits = << >>
    /\ clock = 0
    /\ starts = << >>
    /\ prevResp = NoOutcome
    /\ diags = << >>
    /\ state = NoState

\* no operation is under way
InitResource ==
    /\ HandlerIdle
    /\ res = IdleResource
    /\ conc = IdleInvocations
    /\ prov = IdleProvider

\* performRequest(ctx, &model, &resp.Diagnostics) is entered with the
\* model's configuration c
Begin(c) ==
    /\ cfg' = c
    /\ pc' = "read"
    /\ valDiags' = {}
    /\ transport' = DefaultTransport
    /\ client' = NewClient
    /\ request' = NoRequest
    /\ attempt' = 0
    /\ resp' = NoOutcome
    /\ shouldRetry' = FALSE
    /\ wait' = 0
    /\ waits' = << >>
    /\ clock' = 0
    /\ starts' = << >>
    /\ prevResp' = NoOutcome
    /\ diags' = << >>
    /\ state' = NoState
    /\ UNCHANGED server

\* the handler returns; its locals are gone
Return ==
    /\ cfg' = NullConfig
    /\ pc' = "idle"
    /\ valDiags' = {}
    /\ transport' = DefaultTransport
    /\ client' = NewClient
    /\ request' = NoRequest
    /\ attempt' = 0
    /\ resp' = NoOutcome
    /\ shouldRetry' = FALSE
    /\ wait' = 0
    /\ waits' = << >>
    /\ clock' = 0
    /\ starts' = << >>
    /\ prevResp' = NoOutcome
    /\ diags' = << >>
    /\ state' = NoState
    /\ UNCHANGED server

\* Create, lines 719-753, up to the call of performRequest or, when it
\* sends nothing, to resp.State.Set
RCreate ==
    /\ res.op = "none"
    /\ ~res.stored.exists
    /\ res.ops < MaxOps
    /\ \E p \in Plans :
         IF SendsOnApply(p.When)
         THEN /\ Begin(p.config)
              /\ res' = [ res EXCEPT !.op = "create", !.plan = p,
                                     !.ops = @ + 1 ]
         ELSE /\ res' = [ res EXCEPT
                    !.prior = res.stored,
                    !.stored = ModelOf(p, DefaultComputed(p.config.URL)),
                    !.ops = @ + 1,
                    !.last = Op("create", p, FALSE, FALSE, TRUE) ]
              /\ UNCHANGED handler
    /\ UNCHANGED << conc, prov >>

\* Create after performRequest returned (lines 734-752): the state is set
\* unless it returned an error
RCreateEnd ==
    /\ res.op = "create"
    /\ pc = "done"
    /\ LET err == ~state.written
       IN  res' = [ res EXCEPT
               !.op = "none",
               !.plan = NoPlan,
               !.prior = res.stored,
               !.stored = IF WritesState(err)
                          THEN ModelOf(res.plan, PerformedComputed(state))
                          ELSE res.stored,
               !.last = Op("create", res.plan, attempt >= 1,
                           HasError(diags), WritesState(err)) ]
    /\ Return
    /\ UNCHANGED << conc, prov >>

\* Read, lines 755-786: no request; the state is set again with a default
\* in each computed field that was null
RRead ==
    /\ res.op = "none"
    /\ res.stored.exists
    /\ res.ops < MaxOps
    /\ res' = [ res EXCEPT
           !.prior = res.stored,
           !.stored = ModelOf(PlanOf(res.stored), FilledComputed(res.stored)),
           !.ops = @ + 1,
           !.last = Op("read", PlanOf(res.stored), FALSE, FALSE, TRUE) ]
    /\ UNCHANGED handler
    /\ UNCHANGED << conc, prov >>

\* Update, lines 788-831, up to the call of performRequest or, when it
\* sends nothing, to resp.State.Set
RUpdate ==
    /\ res.op = "none"
    /\ res.stored.exists
    /\ res.ops < MaxOps
    /\ \E p \in Plans :
         IF SendsOnApply(p.When)
         THEN /\ Begin(p.config)
              /\ res' = [ res EXCEPT !.op = "update", !.plan = p,
                                     !.ops = @ + 1 ]
         ELSE /\ res' = [ res EXCEPT
                    !.prior = res.stored,
                    !.stored = ModelOf(p, KeptComputed(res.stored)),
                    !.ops = @ + 1,
                    !.last = Op("update", p, FALSE, FALSE, TRUE) ]
              /\ UNCHANGED handler
    /\ UNCHANGED << conc, prov >>

\* Update after performRequest returned (lines 816-830); after an error the
\* prior state stays
RUpdateEnd ==
    /\ res.op = "update"
    /\ pc = "done"
    /\ LET err == ~state.written
       IN  res' = [ res EXCEPT
               !.op = "none",
               !.plan = NoPlan,
               !.prior = res.stored,
               !.stored = IF WritesState(err)
                          THEN ModelOf(res.plan, PerformedComputed(state))
                          ELSE res.stored,
               !.last = Op("update", res.plan, attempt >= 1,
                           HasError(diags), WritesState(err)) ]
    /\ Return
    /\ UNCHANGED << conc, prov >>

\* Delete, lines 833-852, up to the call of performRequest or, when it
\* sends nothing, to its return; the resource is then removed
RDelete ==
    /\ res.op = "none"
    /\ res.stored.exists
    /\ res.ops < MaxOps
    /\ IF SendsOnDestroy(res.stored.When)
       THEN /\ Begin(res.stored.config)
            /\ res' = [ res EXCEPT !.op = "delete",
                                   !.plan = PlanOf(res.stored),
                                   !.ops = @ + 1 ]
       ELSE /\ res' = [ res EXCEPT
                  !.prior = res.stored,
                  !.stored = NoResource,
                  !.ops = @ + 1,
                  !.last = Op("delete", PlanOf(res.stored), FALSE, FALSE,
                              FALSE) ]
            /\ UNCHANGED handler
    /\ UNCHANGED << conc, prov >>

\* Delete after performRequest returned (lines 848-851): the resource is
\* removed unless Delete ends with an error diagnostic
RDeleteEnd ==
    /\ res.op = "delete"
    /\ pc = "done"
    /\ res' = [ res EXCEPT
           !.op = "none",
           !.plan = NoPlan,
           !.prior = res.stored,
           !.stored = IF HasError(diags) THEN res.stored ELSE NoResource,
           !.last = Op("delete", res.plan, attempt >= 1,
                       HasError(diags), FALSE) ]
    /\ Return
    /\ UNCHANGED << conc, prov >>

NextResource ==
    \/ RCreate
    \/ RCreateEnd
    \/ RRead
    \/ RUpdate
    \/ RUpdateEnd
    \/ RDelete
    \/ RDeleteEnd
    \/ ReadBuild
    \/ DoAttempt
    \/ ReadFinish

\* the lifecycles of one resource, from its creation
SpecResource == InitResource /\ [][NextResource]_vars

\* a resource that an earlier run left in the Terraform state
InitStored ==
    /\ HandlerIdle
    /\ \E st \in StoredStates : res = [ IdleResource EXCEPT !.stored = st ]
    /\ conc = IdleInvocations
    /\ prov = IdleProvider

\* the operations on a resource that is already in the state
SpecStored == InitStored /\ [][NextResource]_vars

---------------------------------------------------------------------------
(* The statements of two concurrent invocations (lines 300-343 and 413;    *)
(* part_020, lines 865-918 and 985).                                       *)

\* the transport an invocation configures
TransportOf(i) == conc.heap[conc.inv[i].ref]

\* the invocation i moves to `pc` having written `tr` to its transport
Configured(i, tr, to) ==
    conc' = [ conc EXCEPT !.heap[conc.inv[i].ref] = tr, !.inv[i].pc = to ]

\* two invocations with different TLS settings start
InitConcurrent ==
    /\ HandlerIdle
    /\ res = IdleResource
    /\ \E c1, c2 \in ConcurrentConfigs :
         /\ c1 # c2
         /\ conc = [ heap |-> InitialHeap,
                     inv |-> << Invocation(c1), Invocation(c2) >> ]
    /\ prov = IdleProvider

\* lines 300-319: tr.Clone()
CClone(i) ==
    /\ conc.inv[i].pc = "clone"
    /\ conc' = [ conc EXCEPT !.heap = Clone(conc.heap, CloneRef(i)),
                             !.inv[i].ref = CloneRef(i),
                             !.inv[i].pc = "insecure" ]
    /\ UNCHANGED << handler, res, prov >>

\* lines 321-326: TLSClientConfig.InsecureSkipVerify
CInsecure(i) ==
    /\ conc.inv[i].pc = "insecure"
    /\ Configured(i, [ TransportOf(i) EXCEPT !.InsecureSkipVerify =
                          InsecureSkipVerifyOf(conc.inv[i].cfg, TransportOf(i)) ],
                  "ca")
    /\ UNCHANGED << handler, res, prov >>

\* lines 328-343: TLSClientConfig.RootCAs, or the error that ends the call
CRootCAs(i) ==
    /\ conc.inv[i].pc = "ca"
    /\ IF CaCertError(conc.inv[i].cfg)
       THEN conc' = [ conc EXCEPT !.inv[i].pc = "done", !.inv[i].err = TRUE ]
       ELSE Configured(i, [ TransportOf(i) EXCEPT !.RootCAs =
                               RootCAsOf(conc.inv[i].cfg, TransportOf(i)) ],
                       "cert")
    /\ UNCHANGED << handler, res, prov >>

\* part_020, lines 908-918: TLSClientConfig.Certificates, or the error
CCertificates(i) ==
    /\ conc.inv[i].pc = "cert"
    /\ IF KeyPairError(conc.inv[i].cfg)
       THEN conc' = [ conc EXCEPT !.inv[i].pc = "done", !.inv[i].err = TRUE ]
       ELSE Configured(i, [ TransportOf(i) EXCEPT !.Certificates =
                               CertificatesOf(conc.inv[i].cfg, TransportOf(i)) ],
                       "send")
    /\ UNCHANGED << handler, res, prov >>

\* line 413: retryClient.Do; the connection is made with the settings the
\* invocation's transport holds at that moment
CSend(i) ==
    /\ conc.inv[i].pc = "send"
    /\ conc' = [ conc EXCEPT !.inv[i].used = TransportOf(i),
                             !.inv[i].sent = TRUE,
                             !.inv[i].pc = "done" ]
    /\ UNCHANGED << handler, res, prov >>

NextConcurrent ==
    \E i \in Invocations :
        \/ CClone(i)
        \/ CInsecure(i)
        \/ CRootCAs(i)
        \/ CCertificates(i)
        \/ CSend(i)

SpecConcurrent == InitConcurrent /\ [][NextConcurrent]_vars

---------------------------------------------------------------------------
(* provider.Configure (provider.go, lines 84-145), after the validators of *)
(* the schema.                                                             *)

InitProvider ==
    /\ HandlerIdle
    /\ res = IdleResource
    /\ conc = IdleInvocations
    /\ \E px \in ProxyConfigs : prov = Provider(px, "validate")

\* ValidateProviderConfig: Configure is called for a configuration the
\* validators accept
PValidate ==
    /\ prov.pc = "validate"
    /\ prov' = [ prov EXCEPT
           !.valDiags = ValidateProxy(prov.conf),
           !.pc = IF ValidateProxy(prov.conf) = {} THEN "configure"
                  ELSE "rejected" ]
    /\ UNCHANGED << handler, res, conc >>

\* lines 84-108: nothing to do without a proxy block
PLoad ==
    /\ prov.pc = "configure"
    /\ prov' = [ prov EXCEPT
           !.pc = IF prov.conf.kind # "known" THEN "done" ELSE "url" ]
    /\ UNCHANGED << handler, res, conc >>

\* lines 110-120: the URL is parsed; after a failure the error is added and
\* Configure goes on
PParseUrl ==
    /\ prov.pc = "url"
    /\ IF AttrIsKnown(prov.conf.URL)
       THEN prov' = [ prov EXCEPT
                !.proxyURL = ParsedURL(prov.conf.URL.v),
                !.diags = IF UrlParse(prov.conf.URL.v).ok THEN @
                           ELSE Append(@, UnableToParse(prov.conf.URL.v)),
                !.pc = "username" ]
       ELSE prov' = [ prov EXCEPT !.pc = "username" ]
    /\ UNCHANGED << handler, res, conc >>

\* lines 122-129: p.proxyURL.User = url.User(...); the assignment through a
\* nil p.proxyURL is a nil pointer dereference, which panics
PUsername ==
    /\ prov.pc = "username"
    /\ IF AttrIsKnown(prov.conf.Username)
       THEN IF prov.proxyURL.nil
            THEN prov' = [ prov EXCEPT !.pc = "panic" ]
            ELSE prov' = [ prov EXCEPT
                     !.proxyURL.User = User(prov.conf.Username.v),
                     !.pc = "password" ]
       ELSE prov' = [ prov EXCEPT !.pc = "password" ]
    /\ UNCHANGED << handler, res, conc >>

\* lines 131-136: p.proxyURL.User = url.UserPassword(p.proxyURL.User
\* .Username(), ...); p.proxyURL.User of a nil p.proxyURL panics
PPassword ==
    /\ prov.pc = "password"
    /\ IF AttrIsKnown(prov.conf.Password)
       THEN IF prov.proxyURL.nil
            THEN prov' = [ prov EXCEPT !.pc = "panic" ]
            ELSE prov' = [ prov EXCEPT
                     !.proxyURL.User =
                         UserPassword(UsernameOf(prov.proxyURL.User),
                                      prov.conf.Password.v),
                     !.pc = "from_env" ]
       ELSE prov' = [ prov EXCEPT !.pc = "from_env" ]
    /\ UNCHANGED << handler, res, conc >>

\* lines 138-145: from_env, then Configure returns
PFromEnv ==
    /\ prov.pc = "from_env"
    /\ prov' = [ prov EXCEPT
           !.proxyFromEnv = IF AttrIsKnown(prov.conf.FromEnv)
                            THEN prov.conf.FromEnv.v ELSE @,
           !.pc = "done" ]
    /\ UNCHANGED << handler, res, conc >>

NextProvider ==
    \/ PValidate
    \/ PLoad
    \/ PParseUrl
    \/ PUsername
    \/ PPassword
    \/ PFromEnv

SpecProvider == InitProvider /\ [][NextProvider]_vars

---------------------------------------------------------------------------
(* Properties.                                                             *)

\* n of "retry.attempts = n": the configured number of retries
ConfiguredAttempts == ValueInt64(cfg.Retry.Attempts)

IsStatus(o, lo, hi) == o.kind = "resp" /\ o.status >= lo /\ o.status <= hi

\* Read was called and has built its client and request (Read ends without
\* an attempt only when the construction failed)
Built == pc \in { "attempt", "wait", "returned" } \/ (pc = "done" /\ attempt >= 1)

\* C1: with no retry block, whatever status the server returns, Read ends
\* with no error diagnostic and a state whose status_code is that status.
C1_StatusNeverFails ==
    (pc = "done" /\ cfg.Retry.null /\ resp.kind = "resp")
        => /\ ~HasError(diags)
           /\ state.written
           /\ state.StatusCode = resp.status

\* C2: the request carries a body if and only if request_body is not null,
\* and the body attached is exactly the configured string (the empty string
\* included).
C2_BodyIffConfigured ==
    Built => /\ request.Body.set <=> ~IsNull(cfg.RequestBody)
             /\ request.Body.set => request.Body.bytes = ValueString(cfg.RequestBody)

C2_Witness ==
    /\ attempt >= 1
    /\ cfg.RequestBody = StringValue("")
    /\ request.Body = [ set |-> TRUE, bytes |-> "" ]

\* C3 as stated: an attempt that ends in a client/network error or in a 5xx
\* other than 501 is retried while fewer than n retries were made; never
\* more than n + 1 attempts; a 501 is not retried.
C3_AnyClientErrorRetried ==
    /\ attempt <= ConfiguredAttempts + 1
    /\ (pc = "returned" /\ (resp.kind \in { "neterr", "certerr" }
                            \/ (IsStatus(resp, 500, 599) /\ resp.status # 501)))
           => attempt = ConfiguredAttempts + 1
    /\ pc = "wait" => ~IsStatus(resp, 501, 501)

\* C3 as amended: the same, for the client errors the retry policy does not
\* treat as permanent (a certificate verification failure is permanent and
\* ends the loop at once).
C3_RetryableErrorRetried ==
    /\ attempt <= ConfiguredAttempts + 1
    /\ (pc = "returned" /\ (resp.kind = "neterr"
                            \/ (IsStatus(resp, 500, 599) /\ resp.status # 501)))
           => attempt = ConfiguredAttempts + 1
    /\ pc = "wait" => ~IsStatus(resp, 501, 501)
    /\ (pc = "returned" /\ resp.kind = "certerr") => ~shouldRetry

C3_Witness ==
    /\ pc = "returned"
    /\ ConfiguredAttempts = 2
    /\ attempt = 3
    /\ prevResp.kind = "neterr"
    /\ IsStatus(resp, 502, 502)

\* C4: with no retry block, or with retry.attempts = 0, exactly one attempt
\* is made whatever its outcome.
C4_NoRetryByDefault ==
    (cfg.Retry.null \/ cfg.Retry.Attempts = Int64Value(0))
        => /\ attempt <= 1
           /\ pc # "wait"
           /\ pc \in { "returned", "done" } => attempt = 1

C4_Witness ==
    /\ pc = "done"
    /\ cfg.Retry.null
    /\ resp.kind = "neterr"
    /\ attempt = 1

\* C5: whatever the retry policy, a first response with a 2xx or 4xx status
\* is the only attempt and its status is reported as status_code.
C5_NoRetryOn2xx4xx ==
    (attempt = 1 /\ (IsStatus(resp, 200, 299) \/ IsStatus(resp, 400, 499)))
        => /\ pc # "wait"
           /\ pc = "done" => (state.written /\ state.StatusCode = resp.status)

\* the cause of the last attempt's failure: the client error, or the status
LastCause == IF resp.kind = "resp" THEN "status" ELSE resp.kind

\* every attempt failed transiently and the retries are used up: the loop
\* was left with shouldRetry still true
Exhausted == pc = "done" /\ shouldRetry

\* C6 as stated: when the retries are exhausted, the one diagnostic is the
\* error 'Error making request', its text names the last attempt's cause and
\* attempts + 1, and no state is written.
C6_CausePreserved ==
    Exhausted
        => /\ Len(diags) = 1
           /\ diags[1].severity = "error"
           /\ diags[1].summary = "Error making request"
           /\ diags[1].detail.attempts = ConfiguredAttempts + 1
           /\ diags[1].detail.cause = LastCause
           /\ ~state.written

\* C6 as amended: the text names attempts + 1 and, when the last attempt
\* ended in a client error, that error; when it ended in a retryable status
\* the text names no cause.
C6_ErrorCausePreserved ==
    Exhausted
        => /\ Len(diags) = 1
           /\ diags[1].severity = "error"
           /\ diags[1].summary = "Error making request"
           /\ diags[1].detail.attempts = ConfiguredAttempts + 1
           /\ diags[1].detail.cause =
                  (IF resp.kind = "resp" THEN "none" ELSE resp.kind)
           /\ ~state.written

C6_Witness ==
    /\ Exhausted
    /\ ConfiguredAttempts = 2
    /\ resp.kind = "neterr"
    /\ diags[1].detail = [ Method |-> "GET", URL |-> "http://a.test",
                           attempts |-> 3, cause |-> "neterr" ]

\* C7: with retry {attempts = 1, min_delay_ms = d}, a 502 followed by a 200
\* ends in status_code = 200, and the second request starts at least d ms
\* after the first.
C7_MinDelayHonoured ==
    (/\ pc = "done"
     /\ ~cfg.Retry.null
     /\ cfg.Retry.Attempts = Int64Value(1)
     /\ ~IsNull(cfg.Retry.MinDelay)
     /\ IsNull(cfg.Retry.MaxDelay)
     /\ attempt = 2
     /\ IsStatus(prevResp, 502, 502)
     /\ IsStatus(resp, 200, 200))
        => /\ ~HasError(diags)
           /\ state.written
           /\ state.StatusCode = 200
           /\ starts[2] - starts[1] >= ValueInt64(cfg.Retry.MinDelay)

\* C8: every wait between two attempts is at least the configured
\* min_delay_ms and at most the configured max_delay_ms, and where a wait is
\* applied the client's minimum wait does not exceed its maximum wait.
C8_WaitWithinWindow ==
    /\ \A k \in 1 .. Len(waits) :
          /\ ~IsNull(cfg.Retry.MinDelay) => waits[k] >= ValueInt64(cfg.Retry.MinDelay)
          /\ ~IsNull(cfg.Retry.MaxDelay) => waits[k] <= ValueInt64(cfg.Retry.MaxDelay)
    /\ Len(waits) > 0 => client.RetryWaitMin <= client.RetryWaitMax

\* max_delay_ms is set below min_delay_ms
MaxBelowMin ==
    /\ ~cfg.Retry.null
    /\ ~IsNull(cfg.Retry.MinDelay)
    /\ ~IsNull(cfg.Retry.MaxDelay)
    /\ ValueInt64(cfg.Retry.MaxDelay) < ValueInt64(cfg.Retry.MinDelay)

\* C9: a retry block with max_delay_ms < min_delay_ms is rejected by the
\* validation of max_delay_ms, and no request is attempted.
C9_MaxBelowMinRejected ==
    MaxBelowMin
        => /\ pc \in { "validate", "rejected" }
           /\ attempt = 0
           /\ pc = "rejected" => "retry.max_delay_ms" \in valDiags

C9_Witness ==
    /\ MaxBelowMin
    /\ pc = "rejected"
    /\ valDiags = { "retry.max_delay_ms" }

\* C10: every request sent has method GET, HEAD or POST; an unset method is
\* sent as GET; any other method is a validation error and nothing is sent.
C10_MethodAllowed ==
    /\ attempt >= 1 => request.Method \in { "GET", "HEAD", "POST" }
    /\ (attempt >= 1 /\ IsNull(cfg.Method)) => request.Method = "GET"
    /\ (~IsNull(cfg.Method) /\ ValueString(cfg.Method) \notin { "GET", "HEAD", "POST" })
           => /\ pc \in { "validate", "rejected" }
              /\ attempt = 0
              /\ pc = "rejected" => "method" \in valDiags

C10_Witness ==
    /\ attempt >= 1
    /\ IsNull(cfg.Method)
    /\ request.Method = "GET"

\* a diagnostic of the client's construction was added
ConfigError ==
    \E i \in 1 .. Len(diags) :
        diags[i].summary \in { "Error configuring TLS client",
                               "error creating x509 key pair" }

\* C11: when Read fails with a configuration error (a ca_cert_pem from which
\* no certificate can be added, a client certificate and key that do not
\* parse or match), no request was sent and no state is written; and such a
\* configuration never gets to an attempt.
C11_ConfigErrorBeforeRequest ==
    /\ ConfigError
           => (pc = "done" /\ attempt = 0 /\ starts = << >> /\ ~state.written)
    /\ (CaCertError(cfg) \/ KeyPairError(cfg))
           => /\ attempt = 0
              /\ pc \in { "validate", "rejected", "read", "done" }
              /\ pc = "done" => ConfigError

C11_Witness ==
    /\ pc = "done"
    /\ cfg.CaCertificate = StringValue("")
    /\ diags = << TLSClientError >>
    /\ attempt = 0

\* the server's certificate is signed by an authority the system roots do
\* not know
UntrustedServer == server.issuer = "ca-a"

\* C18: certificate verification is skipped exactly when insecure = true.
\* With insecure unset or false and no ca_cert_pem, no attempt against a
\* server with an untrusted certificate gets a response: Read ends with the
\* certificate error (or a network error) and writes no state.  With
\* insecure = true no attempt ends in a certificate error, and a 200 answer
\* is written to the state.
C18_VerifyUnlessInsecure ==
    /\ Built => (transport.InsecureSkipVerify <=> cfg.Insecure = BoolValue(TRUE))
    /\ (attempt >= 1 /\ UntrustedServer /\ cfg.Insecure # BoolValue(TRUE)
            /\ IsNull(cfg.CaCertificate))
           => /\ resp.kind \in { "certerr", "neterr" }
              /\ pc = "done" => /\ HasError(diags)
                                /\ ~state.written
                                /\ diags[1].detail.cause = resp.kind
    /\ (attempt >= 1 /\ cfg.Insecure = BoolValue(TRUE))
           => /\ resp.kind # "certerr"
              /\ (pc = "done" /\ IsStatus(resp, 200, 200))
                     => (state.written /\ ~HasError(diags))

C18_Witness ==
    /\ pc = "done"
    /\ UntrustedServer
    /\ cfg.Insecure = BoolValue(FALSE)
    /\ resp = CertErr
    /\ attempt = 1
    /\ diags[1].detail.cause = "certerr"
    /\ ~state.written

\* C19: a configuration that sets both insecure (to any value) and
\* ca_cert_pem is rejected by the validation of ca_cert_pem, and Read never
\* runs with both set.
C19_InsecureConflictsWithCa ==
    /\ (~IsNull(cfg.Insecure) /\ ~IsNull(cfg.CaCertificate))
           => /\ pc \in { "validate", "rejected" }
              /\ attempt = 0
              /\ pc = "rejected" => "ca_cert_pem" \in valDiags
    /\ pc \in { "read", "attempt", "wait", "returned", "done" }
           => (IsNull(cfg.Insecure) \/ IsNull(cfg.CaCertificate))
    /\ ~(transport.InsecureSkipVerify /\ ~transport.RootCAs.nil)

C19_Witness ==
    /\ pc = "rejected"
    /\ cfg.Insecure = BoolValue(FALSE)
    /\ cfg.CaCertificate = StringValue("pem-ca-a")
    /\ "ca_cert_pem" \in valDiags

\* C20: the transport carries a client certificate if and only if both
\* client_cert_pem and client_key_pem are set, and it is the configured
\* pair; a pair that does not parse or match ends Read with 'error creating
\* x509 key pair' before any request; a configuration with only one of the
\* two is rejected by the validation of the one that is set.
C20_ClientCertIffBoth ==
    /\ Built => /\ (transport.Certificates # << >>) <=> UsesClientCert(cfg)
                /\ UsesClientCert(cfg) =>
                       transport.Certificates =
                           << [ cert |-> ValueString(cfg.ClientCert),
                                key |-> ValueString(cfg.ClientKey) ] >>
    /\ (pc = "done" /\ KeyPairError(cfg) /\ ~CaCertError(cfg))
           => (diags = << X509KeyPairError >> /\ attempt = 0)
    /\ (~IsNull(cfg.ClientCert) /\ IsNull(cfg.ClientKey))
           => /\ pc \in { "validate", "rejected" }
              /\ pc = "rejected" => "client_cert_pem" \in valDiags
    /\ (IsNull(cfg.ClientCert) /\ ~IsNull(cfg.ClientKey))
           => /\ pc \in { "validate", "rejected" }
              /\ pc = "rejected" => "client_key_pem" \in valDiags

C20_Witness ==
    /\ attempt >= 1
    /\ cfg.ClientCert = StringValue("pem-cert-1")
    /\ transport.Certificates =
           << [ cert |-> "pem-cert-1", key |-> "pem-key-1" ] >>

\* t of "request_timeout_ms = t"
ConfiguredTimeout == ValueInt64(cfg.RequestTimeout)

\* Do returned an error
DoFailed == pc = "done" /\ attempt >= 1 /\ ~DoSucceeds(resp, shouldRetry)

\* Do returned a response and io.ReadAll an error: the body did not arrive
\* within HTTPClient.Timeout
ReadFailed ==
    pc = "done" /\ attempt >= 1 /\ DoSucceeds(resp, shouldRetry) /\ HasError(diags)

\* the request failed because of a timeout, of its last attempt or of the
\* reading of the response body
TimedOut == (DoFailed /\ resp.kind = "timeout") \/ ReadFailed

\* the detail 'request exceeded the specified timeout: <t>, err: <err>'
ExceededDetail(t) ==
    [ text |-> "request exceeded the specified timeout",
      timeout |-> t,
      err |-> GiveUpError(request, attempt, resp) ]

\* C12: with request_timeout_ms = t, whenever the request fails because of
\* a timeout (of the attempt, or of the reading of its response body, both
\* under the one timeout), the error's detail is 'request exceeded the
\* specified timeout' with t, which is not the generic detail; a request
\* that fails otherwise never gets that detail.
C12_TimeoutDetailNamesTimeout ==
    /\ (TimedOut /\ ConfiguredTimeout > 0)
           => \E i \in 1 .. Len(diags) :
                  /\ diags[i].severity = "error"
                  /\ diags[i].summary = "Error making request"
                  /\ diags[i].detail = ExceededDetail(ConfiguredTimeout)
                  /\ diags[i] # ErrorMakingRequest(GiveUpError(request, attempt, resp))
    /\ (pc = "done" /\ attempt >= 1 /\ ~TimedOut)
           => \A i \in 1 .. Len(diags) :
                  diags[i].summary = "Error making request"
                      => diags[i].detail # ExceededDetail(ConfiguredTimeout)

\* C13 as stated: with request_timeout_ms = t, the time from the start of
\* the first attempt to the end of Read, over all attempts and waits, is at
\* most t.
C13_TimeoutBoundsInvocation ==
    (pc = "done" /\ attempt >= 1 /\ ConfiguredTimeout > 0)
        => clock - starts[1] <= ConfiguredTimeout

\* C13 as amended: the timeout bounds each attempt, the reading of its
\* response body included: an attempt ends at most t after it started; with
\* no retry that bounds the whole of Read.
C13_TimeoutBoundsAttempt ==
    /\ (pc \in { "wait", "returned", "done" } /\ attempt >= 1
            /\ ConfiguredTimeout > 0)
           => clock - starts[attempt] <= ConfiguredTimeout
    /\ (pc = "done" /\ attempt = 1 /\ ConfiguredTimeout > 0)
           => clock - starts[1] <= ConfiguredTimeout

C13_Witness ==
    /\ pc = "done"
    /\ cfg.RequestTimeout = Int64Value(3)
    /\ attempt = 2
    /\ prevResp = TimeoutErr
    /\ resp = TimeoutErr
    /\ starts[2] - starts[1] > 3
    /\ clock - starts[2] = 3

\* Do returned a response and Read ended
GotResponse == pc = "done" /\ attempt >= 1 /\ DoSucceeds(resp, shouldRetry)

\* C14: when the body of the response is not valid UTF-8, Read adds the
\* warning and no error, and sets the state with the body (as the text the
\* state keeps of it), its base64 form, the headers and the status; when
\* the body is valid UTF-8 there is no warning.
C14_NonUtf8WarnsOnly ==
    GotResponse
        => /\ ~HasError(diags)
           /\ state.written
           /\ state.ResponseBody = ToValidUTF8(server.body)
           /\ state.ResponseBodyBase64 = EncodeToString(server.body)
           /\ state.ResponseHeaders = ResponseHeadersOf(ReadHeader(server.headers))
           /\ state.StatusCode = resp.status
           /\ ~Utf8Valid(server.body) => diags = << Utf8Warning >>
           /\ Utf8Valid(server.body) => diags = << >>

C14_Witness ==
    /\ GotResponse
    /\ server.body = << 195, 255 >>
    /\ diags = << Utf8Warning >>
    /\ state.written
    /\ state.ResponseBody = ReplacementChar \o ReplacementChar

\* the index of a character in the standard alphabet, -1 when it has none
decodeMap(ch) ==
    IF \E i \in 0 .. 63 : encodeStd[i + 1] = ch
    THEN CHOOSE i \in 0 .. 63 : encodeStd[i + 1] = ch
    ELSE -1

CorruptInput == [ ok |-> FALSE, bytes |-> << >> ]

\* base64.StdEncoding.DecodeString: groups of four characters; padding only
\* at the end of the last group
RECURSIVE DecodeString(_)
DecodeString(t) ==
    IF Len(t) = 0 THEN [ ok |-> TRUE, bytes |-> << >> ]
    ELSE IF Len(t) < 4 THEN CorruptInput
    ELSE LET a == decodeMap(t[1])
             b == decodeMap(t[2])
             c == decodeMap(t[3])
             d == decodeMap(t[4])
         IN  IF a < 0 \/ b < 0 THEN CorruptInput
             ELSE IF t[3] = "=" /\ t[4] = "="
                  THEN IF Len(t) = 4
                       THEN [ ok |-> TRUE, bytes |-> << a * 4 + b \div 16 >> ]
                       ELSE CorruptInput
             ELSE IF c < 0 THEN CorruptInput
             ELSE IF t[4] = "="
                  THEN IF Len(t) = 4
                       THEN [ ok |-> TRUE,
                              bytes |-> << a * 4 + b \div 16,
                                           (b % 16) * 16 + c \div 4 >> ]
                       ELSE CorruptInput
             ELSE IF d < 0 THEN CorruptInput
             ELSE LET rest == DecodeString(Drop(t, 4))
                  IN  IF rest.ok
                      THEN [ ok |-> TRUE,
                             bytes |-> << a * 4 + b \div 16,
                                          (b % 16) * 16 + c \div 4,
                                          (c % 4) * 64 + d >> \o rest.bytes ]
                      ELSE CorruptInput

\* C15 as stated: whatever the bytes of the response body, valid UTF-8 or
\* not, response_body_base64 decodes with standard base64 to exactly those
\* bytes, and response_body (like body) is those bytes.
C15_Base64RoundTrip ==
    state.written
        => /\ DecodeString(state.ResponseBodyBase64) =
                  [ ok |-> TRUE, bytes |-> server.body ]
           /\ Len(state.ResponseBodyBase64) = 4 * ((Len(server.body) + 2) \div 3)
           /\ state.ResponseBody = server.body
           /\ state.Body = server.body

\* C15 as amended: whatever the bytes of the response body, valid UTF-8 or
\* not, response_body_base64 decodes with standard base64 to exactly those
\* bytes; response_body (like body) is those bytes when they are valid
\* UTF-8, and otherwise those bytes with U+FFFD in place of every byte that
\* belongs to no well-formed encoding.
C15_Base64Exact ==
    state.written
        => /\ DecodeString(state.ResponseBodyBase64) =
                  [ ok |-> TRUE, bytes |-> server.body ]
           /\ Len(state.ResponseBodyBase64) = 4 * ((Len(server.body) + 2) \div 3)
           /\ Utf8Valid(server.body) => state.ResponseBody = server.body
           /\ ~Utf8Valid(server.body) =>
                 /\ state.ResponseBody # server.body
                 /\ Utf8Valid(state.ResponseBody)
                 /\ state.ResponseBody = ToValidUTF8(server.body)
           /\ state.Body = state.ResponseBody

C15_Witness ==
    /\ state.written
    /\ server.body = << 65, 255 >>
    /\ ~Utf8Valid(server.body)
    /\ state.ResponseBodyBase64 = << "Q", "f", "8", "=" >>
    /\ state.ResponseBody = << 65 >> \o ReplacementChar

\* the values of the header lines whose name is k, in the order received
ValuesReceived(lines, k) ==
    LET sel == SelectSeq(lines, LAMBDA l : CanonicalMIMEHeaderKey(l[1]) = k)
    IN  [ i \in 1 .. Len(sel) |-> sel[i][2] ]

\* C16: response_headers has exactly one entry per header name received,
\* whose value is that header's values in the order received, joined with
\* ", "; a header received once keeps its value.
C16_HeadersJoined ==
    state.written
        => /\ DOMAIN state.ResponseHeaders =
                  { CanonicalMIMEHeaderKey(server.headers[i][1]) :
                      i \in 1 .. Len(server.headers) }
           /\ \A k \in DOMAIN state.ResponseHeaders :
                  LET v == ValuesReceived(server.headers, k)
                  IN  /\ Len(v) = 1 => state.ResponseHeaders[k] = v[1]
                      /\ Len(v) = 2 =>
                            state.ResponseHeaders[k] = v[1] \o ", " \o v[2]
                      /\ Len(v) = 3 =>
                            state.ResponseHeaders[k] =
                                v[1] \o ", " \o v[2] \o ", " \o v[3]
                      /\ state.ResponseHeaders[k] = Join(v, ", ")

C16_Witness ==
    /\ state.written
    /\ server.headers = << << "X-Double", "1" >>, << "X-Single", "foobar" >>,
                           << "X-Double", "2" >> >>
    /\ state.ResponseHeaders["X-Double"] = "1, 2"
    /\ state.ResponseHeaders["X-Single"] = "foobar"

\* the keys of request_headers that equal "host" ignoring case, and their
\* values
HostKeys == { k \in DOMAIN Elements(cfg.RequestHeaders) : ToLower(k) = "host" }
HostValues == { Elements(cfg.RequestHeaders)[k] : k \in HostKeys }

\* C17 as stated: when request_headers has a key equal to "host" ignoring
\* case, the Host the server observes is that key's value, and the
\* connection goes to the URL's host; with no such key the Host observed is
\* the URL's host.
C17_HostObservedIsOverride ==
    Built
        => /\ HostKeys # {} => HostSent(request) \in HostValues
           /\ HostKeys = {} => HostSent(request) = UrlHost(ValueString(cfg.URL))
           /\ DialAddress(request, server) = UrlHost(ValueString(cfg.URL))

\* C17 as amended: the request's Host is set to the value of such a key (of
\* one of them when several keys differ in case only); the server observes
\* that value when it is not empty, and the URL's host when it is empty; the
\* connection goes to the URL's host, or to the proxy when the environment
\* names one for the URL, whatever the Host; with no such key the
\* request's Host stays the URL's host, which the server observes.
C17_HostOverride ==
    Built
        => /\ HostKeys # {}
                 => /\ request.Host \in HostValues
                    /\ request.Host # "" => HostSent(request) = request.Host
                    /\ request.Host = ""
                          => HostSent(request) = UrlHost(ValueString(cfg.URL))
           /\ HostKeys = {}
                 => /\ request.Host = UrlHost(ValueString(cfg.URL))
                    /\ HostSent(request) = UrlHost(ValueString(cfg.URL))
           /\ server.proxy = NoProxy
                 => DialAddress(request, server) = UrlHost(ValueString(cfg.URL))
           /\ server.proxy # NoProxy
                 => DialAddress(request, server) = server.proxy

C17_Witness ==
    /\ attempt >= 1
    /\ cfg.RequestHeaders = MapValue([ n \in { "host" } |-> "b.test" ])
    /\ request.Host = "b.test"
    /\ HostSent(request) = "b.test"
    /\ server.proxy = NoProxy
    /\ DialAddress(request, server) = "a.test"

\* the requests that an invocation with configuration c can build (lines
\* 376-411): one for each order in which the loop can take request_headers
RequestsOf(c) ==
    { SetHeaders(BuildRequest(c), Elements(c.RequestHeaders), order) :
        order \in Orders(DOMAIN Elements(c.RequestHeaders)) }

\* C29: the request sent is a function of the configuration alone: any
\* other invocation with the same configuration sends the same header
\* values and the same Host, also when request_headers has two keys that
\* differ in letter case only.
C29_RequestDeterminedByConfig ==
    Built => \A r \in RequestsOf(cfg) :
                /\ r.Header = request.Header
                /\ HostSent(r) = HostSent(request)

---------------------------------------------------------------------------
(* Properties of the http resource.                                        *)

\* the computed attributes
ComputedNames == { "ID", "ResponseHeaders", "ResponseBody", "Body",
                   "ResponseBodyBase64", "StatusCode" }

\* `when` is "apply" or unset / is "destroy"
PlansApply(p) == IsNull(p.When) \/ ValueString(p.When) = "apply"
PlansDestroy(p) == ~IsNull(p.When) /\ ValueString(p.When) = "destroy"

\* the operation that ended last
LastIs(kind) == res.op = "none" /\ res.last.kind = kind

\* C21: over the lifecycle of one resource, Create and every Update send a
\* request exactly when the planned `when` is "apply" or unset, and Delete
\* sends one exactly when the stored `when` is "destroy"; a request is on
\* its way only inside such an operation.
C21_RequestIffWhen ==
    /\ (LastIs("create") \/ LastIs("update"))
          => (res.last.sent <=> PlansApply(res.last.plan))
    /\ LastIs("delete") => (res.last.sent <=> PlansDestroy(res.last.plan))
    /\ attempt >= 1 =>
          \/ res.op \in { "create", "update" } /\ PlansApply(res.plan)
          \/ res.op = "delete" /\ PlansDestroy(res.plan)

\* a resource with when = "destroy" was created and updated without a
\* request, and its destruction sent one
C21_Witness ==
    /\ LastIs("delete")
    /\ res.last.sent
    /\ res.ops >= 3
    /\ PlansDestroy(res.last.plan)

\* C22: Create with when = "destroy" sends no request and writes a state
\* with id = url, status_code = 0, the three bodies empty and an empty
\* response_headers map.
C22_CreateOnDestroyWritesDefaults ==
    (LastIs("create") /\ PlansDestroy(res.last.plan)) =>
        /\ ~res.last.sent
        /\ res.stored.exists
        /\ PlanOf(res.stored) = res.last.plan
        /\ res.stored.ID = StringValue(ValueString(res.stored.config.URL))
        /\ res.stored.StatusCode = Int64Value(0)
        /\ res.stored.ResponseBody = StringValue(EmptyText)
        /\ res.stored.Body = StringValue(EmptyText)
        /\ res.stored.ResponseBodyBase64 = StringValue(EmptyText)
        /\ res.stored.ResponseHeaders = MapValue(EmptyMap)

C22_Witness ==
    /\ LastIs("create")
    /\ PlansDestroy(res.last.plan)
    /\ res.stored.exists

\* C23: in every state written (by performRequest's caller, by Create, Read
\* or Update), id is the url of that same state.
C23_IdIsUrl ==
    /\ res.stored.exists =>
          res.stored.ID = StringValue(ValueString(res.stored.config.URL))
    /\ state.written => state.ID = ValueString(cfg.URL)

\* C24: body mirrors response_body in every state written.
C24_BodyMirrorsResponseBody ==
    /\ res.stored.exists => res.stored.Body = res.stored.ResponseBody
    /\ state.written => state.Body = state.ResponseBody

\* a non-empty response body was stored and then kept by an Update that
\* sent nothing
C24_Witness ==
    /\ LastIs("update")
    /\ ~res.last.sent
    /\ res.stored.ResponseBody = StringValue(<< 65 >>)

\* C25: no partial result.  performRequest returns nil exactly when it
\* added no error diagnostic, and only then has it assigned the computed
\* fields (all six); Create and Update set the state exactly then, Create
\* leaving no resource and Update leaving the prior state after an error.
C25_AllOrNothing ==
    /\ pc = "done" => (state.written <=> ~HasError(diags))
    /\ (pc = "done" /\ HasError(diags)) => state = NoState
    /\ (LastIs("create") \/ LastIs("update")) =>
          /\ res.last.wrote <=> ~res.last.err
          /\ res.last.wrote =>
                /\ res.stored.exists
                /\ PlanOf(res.stored) = res.last.plan
          /\ res.last.err => res.stored = res.prior
    /\ res.stored.exists => \A f \in ComputedNames : ~IsNull(res.stored[f])

\* an Update sent its request and ended with an error
C25_Witness ==
    /\ LastIs("update")
    /\ res.last.sent
    /\ res.last.err
    /\ res.stored.exists

\* C28: operations that send no request leave the stored response as it is.
\* Read sends nothing and changes a computed field only when it is null,
\* giving it its default; Update with when = "destroy" sends nothing and
\* writes the prior computed fields with the arguments of the plan.
C28_NoRequestKeepsResponse ==
    /\ LastIs("read") =>
          /\ ~res.last.sent
          /\ res.stored.exists
          /\ PlanOf(res.stored) = PlanOf(res.prior)
          /\ \A f \in ComputedNames :
                res.stored[f] = IF IsNull(res.prior[f])
                                THEN DefaultComputed(res.prior.config.URL)[f]
                                ELSE res.prior[f]
    /\ (LastIs("update") /\ PlansDestroy(res.last.plan)) =>
          /\ ~res.last.sent
          /\ ComputedOf(res.stored) = ComputedOf(res.prior)
          /\ PlanOf(res.stored) = res.last.plan

\* Read met a state with a response but no body, kept the one and filled
\* the other
C28_Witness ==
    /\ LastIs("read")
    /\ IsNull(res.prior.Body)
    /\ res.prior.StatusCode = Int64Value(200)
    /\ res.stored.StatusCode = Int64Value(200)
    /\ res.stored.Body = StringValue(EmptyText)

---------------------------------------------------------------------------
(* Properties of concurrent invocations.                                   *)

\* C26: concurrent invocations share no mutable transport state.  In any
\* interleaving of two invocations with different TLS settings each request
\* is sent with exactly its own invocation's settings, each invocation
\* configures a transport that is neither the default one nor the other's,
\* and the default transport's TLS configuration stays as it was.
C26_OwnTransportOnly ==
    conc.inv # << >> =>
        /\ conc.heap[DefaultRef] = DefaultTransport
        /\ \A i \in Invocations :
              /\ conc.inv[i].sent
                    => conc.inv[i].used = BuildTransport(conc.inv[i].cfg)
              /\ conc.inv[i].pc # "clone" =>
                    /\ conc.inv[i].ref # DefaultRef
                    /\ \A j \in Invocations \ { i } :
                          conc.inv[j].ref # conc.inv[i].ref

\* both invocations sent their request, one insecure and one with the
\* certificate of authority A
C26_Witness ==
    /\ conc.inv # << >>
    /\ conc.inv[1].sent /\ conc.inv[2].sent
    /\ conc.inv[1].used.InsecureSkipVerify
    /\ ~conc.inv[2].used.InsecureSkipVerify
    /\ conc.inv[2].used.RootCAs = [ nil |-> FALSE, certs |-> { "ca-a" } ]

---------------------------------------------------------------------------
(* Properties of the provider's proxy configuration.                       *)

\* the validators accepted the configuration
ProxyValidated ==
    prov.pc \in { "configure", "url", "username", "password", "from_env",
                  "done", "panic" }

\* C27: for every proxy configuration that passes validation exactly one
\* proxy policy is in force once Configure has returned: the URL of the
\* configuration, with the username and the password attached when they
\* are given, or the environment's when from_env is true, or none; and such
\* a configuration does not set both url and from_env, sets username only
\* with url and password only with username.
C27_OneProxyPolicy ==
    /\ ProxyValidated =>
          /\ ~(~AttrIsNull(prov.conf.URL) /\ ~AttrIsNull(prov.conf.FromEnv))
          /\ ~AttrIsNull(prov.conf.Username) => ~AttrIsNull(prov.conf.URL)
          /\ ~AttrIsNull(prov.conf.Password) => ~AttrIsNull(prov.conf.Username)
    /\ prov.pc = "done" =>
          /\ proxyForRequestFunc(prov) \in { "url", "env", "none" }
          /\ proxyForRequestFunc(prov) = "url"
                <=> AttrIsKnown(prov.conf.URL)
          /\ proxyForRequestFunc(prov) = "env"
                <=> (AttrIsKnown(prov.conf.FromEnv) /\ prov.conf.FromEnv.v)
          /\ AttrIsKnown(prov.conf.URL) =>
                /\ prov.proxyURL.url = prov.conf.URL.v
                /\ AttrIsKnown(prov.conf.Username)
                      => UsernameOf(prov.proxyURL.User) = prov.conf.Username.v
                /\ AttrIsKnown(prov.conf.Password)
                      => /\ prov.proxyURL.User.passwordSet
                         /\ prov.proxyURL.User.password = prov.conf.Password.v
                /\ (AttrIsNull(prov.conf.Username) /\ AttrIsNull(prov.conf.Password))
                      => prov.proxyURL.User.nil

\* Configure returned with the proxy URL carrying the username and the
\* password of the configuration
C27_Witness ==
    /\ prov.pc = "done"
    /\ proxyForRequestFunc(prov) = "url"
    /\ prov.proxyURL.url = "http://proxy.test"
    /\ prov.proxyURL.User = UserPassword("user", "secret")

\* C30: Configure never uses an unset proxy URL: whenever it attaches a
\* username or a password, p.proxyURL was set by a successful parse earlier
\* in the call, for every configuration the validators accept (an unknown
\* proxy.url included).
C30_ProxyUrlSetWhenUsed ==
    /\ (prov.pc = "username" /\ AttrIsKnown(prov.conf.Username))
          => ~prov.proxyURL.nil
    /\ (prov.pc = "password" /\ AttrIsKnown(prov.conf.Password))
          => ~prov.proxyURL.nil
    /\ prov.pc # "panic"

=============================================================================
